---- MODULE Spec2Model ----
(***************************************************************************)
(* A model of the askmetwice data-collection scripts:                      *)
(*   - the threaded fan-out of (item, chatbot) tasks in newsquestions.py,  *)
(*     factcheckquestions.py and longtermquestions.py;                     *)
(*   - the Save Page Now poller of internetarchive.py;                     *)
(*   - the headline splitter of googlenews.py;                             *)
(*   - the Google Sheets wrappers of googlesheets.py.                      *)
(*   - generate_questions and add_questions, save_page,                    *)
(*     authenticate_gsheets, the scrapers' retry loops, the loaders with   *)
(*     an item limit and the sequential ask_questions of questions.py.     *)
(* Each part has its own specification over the shared variables.          *)
(***************************************************************************)
EXTENDS Integers, Sequences, FiniteSets, TLC

(***************************************************************************)
(* Bounds of the model.                                                    *)
(***************************************************************************)
\* most (item, chatbot) tasks of one fan-out run
MaxTasks == 3
\* largest max_workers argument tried
MaxWorkers == 2
\* most external calls of one run that do not succeed: a chatbot request, open,
\* json.dump or upload that raises, or an upload that makes no link
MaxFaults == 2

(***************************************************************************)
(* The threaded fan-out: state.                                            *)
(***************************************************************************)
VARIABLES
    script,        \* which of the three scripts runs: "news", "factcheck", "longterm"
    df,            \* the input rows, a sequence of row dictionaries
    chatbots,      \* the chatbots argument, a sequence of names
    max_workers,   \* the max_workers argument
    main_pc,       \* position of the calling thread
    folder,        \* TRUE once os.makedirs(save_folder) has run
    pc,            \* position of each task in ask_and_save
    locks,         \* locks[bot]: the task holding the chatbot's lock, or NoTask
    counter_lock,  \* the task holding counter_lock, or NoTask
    counter,       \* the nonlocal counter
    count,         \* each task's local count (NoCount before it is assigned)
    response,      \* each task's local response (NoResponse before the request returns)
    files,         \* the files opened for writing: [path, by, complete]
    exc,           \* the exception each task's try body raised ("none": none so far)
    results,       \* each task's returned row (NoRow before it returns)
    ret,           \* the rows of the returned dataframe (<<>> before the return)
    faults         \* the external calls that did not succeed so far

fanVars == <<script, df, chatbots, max_workers, main_pc, folder, pc, locks,
             counter_lock, counter, count, response, files, exc, results, ret, faults>>

VARIABLES
    spn_pc,        \* position in retrieve_spn_url
    spn_response,  \* the response argument: NoSubmit (None) or the submit response's body
    max_tries,     \* the max_tries argument
    attempt,       \* the loop variable of for attempt in range(max_tries)
    requests,      \* the status requests issued so far
    sleeps,        \* the calls of time.sleep(try_interval) so far
    data,          \* the body of the last status check that returned one
    successes,     \* the status checks that reported status "success"
    not_success,   \* the status checks that completed with another status
    spn_ret        \* the returned value (Unset before the return)

spnVars == <<spn_pc, spn_response, max_tries, attempt, requests, sleeps, data,
             successes, not_success, spn_ret>>

VARIABLES
    title_pc,      \* "input" before split_single_title has run, "split" after
    title,         \* the headline, a sequence of characters and words
    news_title,    \* the 'title' column after the split
    news_outlet    \* the 'news-outlet' column after the split

titleVars == <<title_pc, title, news_title, news_outlet>>

VARIABLES
    gs_stack,      \* the calls in progress in googlesheets.py, the innermost last
    gs_public,     \* the public_access argument of create_spreadsheet
    gs_tabs,       \* the titles of the tabs of the spreadsheet
    gs_written,    \* the tabs whose values have been written or appended to
    gs_val,        \* the value the last finished inner call returned
    gs_ret,        \* the value the outermost call returned (Unset before it returns)
    gs_raised,     \* the exception that left the outermost call ("none": none)
    gs_errors,     \* the requests that failed with HttpError so far
    gs_logged,     \* the messages printed for a failed request so far
    gs_returns,    \* the calls that have returned: [fn, depth, value, failed, origin, origin_depth]
    gs_log         \* the requests pd_to_sheet has issued, in order: [request, outcome, tab]

gsVars == <<gs_stack, gs_public, gs_tabs, gs_written, gs_val, gs_ret, gs_raised,
            gs_errors, gs_logged, gs_returns, gs_log>>

VARIABLES
    gen_pc,            \* generate_questions: "called", "returned" or "raised"
    headline,          \* the headline argument
    use_ai_questions,  \* the use_ai_questions argument
    gen_response,      \* what cb.ask_openai(prompt) does when it is called
    llm_calls,         \* the calls of cb.ask_openai made so far
    question_list      \* the local question_list, returned at the end

genVars == <<gen_pc, headline, use_ai_questions, gen_response, llm_calls, question_list>>

VARIABLES
    save_pc,           \* save_page: "send", "retrieve", "returned" or "raised"
    send_exc,          \* the exception requests.post or raise_for_status raised ("none": none)
    archive_url        \* the value save_page returned (Unset before the return)

saveVars == <<save_pc, send_exc, archive_url>>

VARIABLES
    auth_pc,           \* position in authenticate_gsheets
    token_file,        \* the file at token_path: NoFile, Malformed, or the credentials it holds
    secrets_file,      \* TRUE if the file at credentials_path exists
    creds,             \* the local creds: NoCreds (None) or a credentials record
    loaded,            \* the credentials read from the token file (NoCreds: none read)
    auth_steps,        \* the steps completed or tried so far, in order: "load", "refresh",
                       \* "login", and "write" once the token file holds the credentials
    auth_faults        \* the calls of this run that raised

authVars == <<auth_pc, token_file, secrets_file, creds, loaded, auth_steps, auth_faults>>

VARIABLES
    scr_fn,            \* the scraper called: "ask_chatgpt" or "ask_perplexity"
    scr_pc,            \* "loop", "try", "except", "returned" or "raised"
    numtries,          \* the numtries argument
    tries_attempted,   \* the local tries_attempted
    scr_step,          \* the page interaction the current attempt is at
    scr_attempts,      \* the attempts begun so far
    scr_failures,      \* the attempts whose try block raised
    scr_ret            \* the returned value (Unset before the return)

scrVars == <<scr_fn, scr_pc, numtries, tries_attempted, scr_step, scr_attempts,
             scr_failures, scr_ret>>

VARIABLES
    lim_fn,            \* the loader called: "fetch_articles", "load_questions", "load_claims"
    lim_pc,            \* "called", "returned" or "raised"
    lim_items,         \* what the feed, the sheet or the query holds, in its order
    lim_limit,         \* article_limit, question_limit or claim_limit
    separate_titles,   \* the separate_titles argument of fetch_articles
    lim_out            \* the rows or questions returned

limVars == <<lim_fn, lim_pc, lim_items, lim_limit, separate_titles, lim_out>>

VARIABLES
    seq_pc,          \* position in ask_questions of questions.py
    seq_df,          \* the df argument, a sequence of row dictionaries
    seq_chatbots,    \* the chatbots argument
    save_folder,     \* the save_folder variable
    dirs_before,     \* the paths that existed before the call
    disk,            \* the files on disk: [folder, name, content]
    seq_counter,     \* the counter variable
    seq_pair,        \* the (question, chatbot) pairs the loops have finished
    result_rows,     \* the result_rows list
    seq_exc          \* the exception that left the call ("none": none)

seqVars == <<seq_pc, seq_df, seq_chatbots, save_folder, dirs_before, disk, seq_counter,
             seq_pair, result_rows, seq_exc>>

VARIABLES
    add_fn,            \* whose add_questions runs: "news" or "factcheck"
    add_pc,            \* "called", "returned" or "raised"
    add_df,            \* the df argument, the caller's dataframe
    add_use_ai,        \* the use_ai_questions argument (news)
    factcheck_prompt,  \* the factcheck_prompt argument (factcheck)
    add_i,             \* the rows the loop of the news add_questions has finished
    add_generated,     \* the lists generate_questions returned, one for each finished row
    add_out            \* result_rows (news), dfq (factcheck)

addVars == <<add_fn, add_pc, add_df, add_use_ai, factcheck_prompt, add_i, add_generated,
             add_out>>

\* the variables of the parts listed first, and of the parts listed after them
firstVars == <<fanVars, spnVars, titleVars, gsVars>>
laterVars == <<genVars, saveVars, authVars, scrVars, limVars, seqVars, addVars>>

\* the variables an action of one part leaves alone
otherThanFan == <<spnVars, titleVars, gsVars, laterVars>>
otherThanSpn == <<fanVars, titleVars, gsVars, laterVars>>
otherThanTitle == <<fanVars, spnVars, gsVars, laterVars>>
otherThanGs == <<fanVars, spnVars, titleVars, laterVars>>
otherThanGen == <<firstVars, saveVars, authVars, scrVars, limVars, seqVars, addVars>>
otherThanSave == <<fanVars, titleVars, gsVars, genVars, authVars, scrVars, limVars, seqVars, addVars>>
otherThanAuth == <<firstVars, genVars, saveVars, scrVars, limVars, seqVars, addVars>>
otherThanScr == <<firstVars, genVars, saveVars, authVars, limVars, seqVars, addVars>>
otherThanAdd == <<firstVars, genVars, saveVars, authVars, scrVars, limVars, seqVars>>
otherThanSeq == <<firstVars, genVars, saveVars, authVars, scrVars, limVars, addVars>>
otherThanLim == <<firstVars, genVars, saveVars, authVars, scrVars, seqVars, addVars>>

\* max_workers = 10 in the signatures of ask_questions and answer_questions
DefaultMaxWorkers == 10

NoTask == 0
NoCount == -1
NoResponse == [none |-> TRUE]
NoRow == [none |-> TRUE]

Scripts == {"news", "factcheck", "longterm"}

\* the keys of chatbots.CB_FUNCTIONS
CB_FUNCTIONS == {"perplexity", "openai", "gemini"}

\* the chatbot lists tried; "grok" is not a key of CB_FUNCTIONS
ChatbotLists == {<<"perplexity", "openai">>, <<"gemini">>, <<"openai", "grok">>}

\* the result dictionary of each wrapper in chatbots.py for a requested model
PerplexityResult(prompt, model) ==
    [timestamp |-> "now", model |-> "Perplexity " \o model, prompt |-> prompt,
     response |-> "perplexity payload"]

OpenAIResult(prompt, model) ==
    [timestamp |-> "now", model |-> "OpenAI " \o model, prompt |-> prompt,
     response |-> "openai payload"]

GeminiResult(prompt, model) ==
    [timestamp |-> "now", model |-> "Google " \o model, prompt |-> prompt,
     response |-> "gemini payload"]

\* the wrappers with their default model
ask_perplexity(prompt) == PerplexityResult(prompt, "sonar-pro")

ask_openai(prompt) == OpenAIResult(prompt, "gpt-4o")

ask_gemini(prompt) == GeminiResult(prompt, "gemini-2.5-flash")

\* cb_functions[chatbot](question)
ask_fn(chatbot, question) ==
    CASE chatbot = "perplexity" -> ask_perplexity(question)
      [] chatbot = "openai" -> ask_openai(question)
      [] chatbot = "gemini" -> ask_gemini(question)

\* the input rows of a run of n items: longterm takes bare questions, the other two
\* scripts dataframe rows with further columns that are passed through
InputRows(s, n) ==
    [i \in 1..n |->
        IF s = "longterm"
        THEN [question |-> "q" \o ToString(i)]
        ELSE [question |-> "q" \o ToString(i), title |-> "t" \o ToString(i)]]

\* the task list: rows outer, chatbots inner; task k is 1-based
NumTasks == Len(df) * Len(chatbots)
Tasks == 1..NumTasks
RowOf(k) == ((k - 1) \div Len(chatbots)) + 1
BotOf(k) == chatbots[((k - 1) % Len(chatbots)) + 1]
QuestionOf(k) == df[RowOf(k)].question

\* f"{count:05d}"
Pad5(c) ==
    IF c < 10 THEN "0000" \o ToString(c)
    ELSE IF c < 100 THEN "000" \o ToString(c)
    ELSE IF c < 1000 THEN "00" \o ToString(c)
    ELSE IF c < 10000 THEN "0" \o ToString(c)
    ELSE ToString(c)

\* os.path.join(save_folder, f"AMT-<Script>-{timestamp}-{count:05d}.json")
OutPathNews(c) == "out/AMT-News-" \o "2025-07-30" \o "-" \o Pad5(c) \o ".json"
OutPathFactCheck(c) == "out/AMT-FactCheck-" \o "2025-07-30" \o "-" \o Pad5(c) \o ".json"
OutPathLongTerm(c) == "out/AMT-LongTerm-" \o "2025-07-30" \o "-" \o Pad5(c) \o ".json"

OutPath(c) ==
    CASE script = "news" -> OutPathNews(c)
      [] script = "factcheck" -> OutPathFactCheck(c)
      [] script = "longterm" -> OutPathLongTerm(c)

\* row_dict.copy() with the two result fields set
WithResult(row, client, url) ==
    [f \in DOMAIN row \cup {"ai client", "response url"} |->
        IF f = "ai client" THEN client
        ELSE IF f = "response url" THEN url
        ELSE row[f]]

\* the except branch of each script's ask_and_save
ErrorRowNews(row, chatbot) ==
    WithResult(row, "ERROR w/ " \o chatbot, "an error occurred")

ErrorRowFactCheck(row, chatbot) ==
    WithResult(row, "ERROR w/ " \o chatbot, "an error occurred")

ErrorRowLongTerm(row, chatbot) ==
    WithResult(row, "ERROR w/ " \o chatbot, "an error ocurred")

\* the classes of the exceptions the calls of the try body raise: the vendor SDK's
\* error, open's OSError, json.dump's TypeError, the Drive client's HttpError
ExceptionClasses == {"APIError", "OSError", "TypeError", "HttpError"}

CatchesOnlyHttpError(e) == e = "HttpError"

\* except Exception as e: every class above derives from Exception
CatchesException(e) == e \in ExceptionClasses

\* an exception that leaves ask_and_save: the future holds it and executor.map
\* raises it again in the calling thread
Propagated(e) == [exception |-> e]

IsPropagated(r) == "exception" \in DOMAIN r

ErrorRow(k) ==
    CASE script = "news" -> ErrorRowNews(df[RowOf(k)], BotOf(k))
      [] script = "factcheck" -> ErrorRowFactCheck(df[RowOf(k)], BotOf(k))
      [] script = "longterm" -> ErrorRowLongTerm(df[RowOf(k)], BotOf(k))

\* what ask_and_save returns, or lets through, when its try body raises e
Handle(k, e) == IF CatchesException(e) THEN ErrorRow(k) ELSE Propagated(e)

\* what gd.upload_file returns for a path when it creates a link
DriveUrl(path) == "https://drive.google.com/file/" \o path

\* save_url, with "" replaced by the error message
SaveUrl(url) == IF url = "" THEN "error creating url" ELSE url

\* result_dict = row_dict, as it would be without the copy: the fields set in
\* result_dict show in the row dictionary the tasks of the row share
RowDictsAfterAlias(k, result) == [df EXCEPT ![RowOf(k)] = result]

\* result_dict = row_dict.copy(): the shared row dictionaries stay as they were
RowDictsAfterCopy(k, result) == df

\* the row names the chatbot of the task instead of the model of the response
SuccessRowNamesChatbot(k, url) ==
    WithResult(df[RowOf(k)], BotOf(k), SaveUrl(url))

\* the success row of ask_and_save
SuccessRow(k, url) ==
    WithResult(df[RowOf(k)], response[k].model, SaveUrl(url))

(***************************************************************************)
(* The threaded fan-out: the calling thread.                               *)
(***************************************************************************)
FanInit ==
    /\ script \in Scripts
    /\ chatbots \in ChatbotLists
    /\ \E n \in 1..MaxTasks :
          /\ n * Len(chatbots) <= MaxTasks
          /\ df = InputRows(script, n)
    /\ max_workers \in (1..MaxWorkers) \cup {DefaultMaxWorkers}
    /\ main_pc = "validate"
    /\ folder = FALSE
    /\ pc = [k \in Tasks |-> "queued"]
    /\ locks = [b \in {chatbots[j] : j \in 1..Len(chatbots)} |-> NoTask]
    /\ counter_lock = NoTask
    /\ counter = 0
    /\ count = [k \in Tasks |-> NoCount]
    /\ response = [k \in Tasks |-> NoResponse]
    /\ files = {}
    /\ exc = [k \in Tasks |-> "none"]
    /\ results = [k \in Tasks |-> NoRow]
    /\ ret = <<>>
    /\ faults = 0

\* only the first name of chatbots is looked up
FirstChatbotKnown == chatbots = <<>> \/ chatbots[1] \in CB_FUNCTIONS

\* every name of chatbots is a key of cb_functions
AllChatbotsKnown == \A j \in 1..Len(chatbots) : chatbots[j] \in CB_FUNCTIONS

\* the check of the chatbot names passes: the folder is made, the counter, the
\* locks and the task list are set up and the executor is entered
ValidateOk ==
    /\ main_pc = "validate"
    /\ AllChatbotsKnown
    /\ main_pc' = "run"
    /\ folder' = TRUE
    /\ UNCHANGED <<script, df, chatbots, max_workers, pc, locks, counter_lock,
                   counter, count, response, files, exc, results, ret, faults>>
    /\ UNCHANGED otherThanFan

\* raise ValueError("Invalid chatbot specified in ask_questions().")
ValidateRaise ==
    /\ main_pc = "validate"
    /\ ~AllChatbotsKnown
    /\ main_pc' = "raised"
    /\ UNCHANGED <<script, df, chatbots, max_workers, folder, pc, locks, counter_lock,
                   counter, count, response, files, exc, results, ret, faults>>
    /\ UNCHANGED otherThanFan

\* the place of task k when the tasks are put in the order in which they went
\* through the counter section, the tasks that never did last
CountRank(k) ==
    LET key(j) == IF count[j] = NoCount THEN NumTasks + j ELSE count[j]
    IN Cardinality({j \in Tasks : key(j) < key(k)}) + 1

\* the results as they would be listed in the order of the counter values
MapResultsInCounterOrder ==
    [i \in Tasks |-> results[CHOOSE k \in Tasks : CountRank(k) = i]]

\* list(executor.map(fn, tasks)): the results in the order of the tasks
MapResults == [k \in Tasks |-> results[k]]

\* list(executor.map(...)) has every result and the with block has joined the
\* pool: the dataframe of the results, in task order, is returned, unless a task
\* let an exception through, which executor.map raises here
Return ==
    /\ main_pc = "run"
    /\ \A k \in Tasks : pc[k] = "done"
    /\ IF \E k \in Tasks : IsPropagated(results[k])
       THEN main_pc' = "raised" /\ ret' = ret
       ELSE main_pc' = "returned" /\ ret' = MapResults
    /\ UNCHANGED <<script, df, chatbots, max_workers, folder, pc, locks, counter_lock,
                   counter, count, response, files, exc, results, faults>>
    /\ UNCHANGED otherThanFan

(***************************************************************************)
(* The threaded fan-out: the pool and ask_and_save.                        *)
(***************************************************************************)
\* the tasks a worker thread is running
Active == {k \in Tasks : pc[k] \notin {"queued", "done"}}

PoolHasIdleWorkerUnbounded == TRUE

\* ThreadPoolExecutor(max_workers): a queued task starts only on one of at most
\* max_workers threads, each running one task at a time
PoolHasIdleWorker == Cardinality(Active) < max_workers

BotLockFreeNoLock(bot) == TRUE

\* locks[chatbot] can be acquired
BotLockFree(bot) == locks[bot] = NoTask

CounterLockFreeNoLock == TRUE

\* counter_lock can be acquired
CounterLockFree == counter_lock = NoTask

\* a worker takes the next task off the executor's FIFO work queue
Start(k) ==
    /\ main_pc = "run"
    /\ pc[k] = "queued"
    /\ \A j \in Tasks : j < k => pc[j] # "queued"
    /\ PoolHasIdleWorker
    /\ pc' = [pc EXCEPT ![k] = "lock_bot"]
    /\ UNCHANGED <<script, df, chatbots, max_workers, main_pc, folder, locks,
                   counter_lock, counter, count, response, files, exc, results, ret, faults>>
    /\ UNCHANGED otherThanFan

\* with locks[chatbot]: entered
AcquireBotLock(k) ==
    /\ pc[k] = "lock_bot"
    /\ BotLockFree(BotOf(k))
    /\ locks' = [locks EXCEPT ![BotOf(k)] = k]
    /\ pc' = [pc EXCEPT ![k] = "asking"]
    /\ UNCHANGED <<script, df, chatbots, max_workers, main_pc, folder,
                   counter_lock, counter, count, response, files, exc, results, ret, faults>>
    /\ UNCHANGED otherThanFan

\* response = ask_fn(question) returns; the with block releases the lock
AskReturn(k) ==
    /\ pc[k] = "asking"
    /\ response' = [response EXCEPT ![k] = ask_fn(BotOf(k), QuestionOf(k))]
    /\ locks' = [locks EXCEPT ![BotOf(k)] = NoTask]
    /\ pc' = [pc EXCEPT ![k] = "lock_counter"]
    /\ UNCHANGED <<script, df, chatbots, max_workers, main_pc, folder,
                   counter_lock, counter, count, files, exc, results, ret, faults>>
    /\ UNCHANGED otherThanFan

\* ask_fn(question) raises, as it would be if the counter were advanced before
\* the request and not only after it
AskRaiseCounts(k) ==
    /\ pc[k] = "asking"
    /\ faults < MaxFaults
    /\ faults' = faults + 1
    /\ counter' = counter + 1
    /\ locks' = [locks EXCEPT ![BotOf(k)] = NoTask]
    /\ exc' = [exc EXCEPT ![k] = "APIError"]
    /\ results' = [results EXCEPT ![k] = Handle(k, "APIError")]
    /\ pc' = [pc EXCEPT ![k] = "done"]
    /\ UNCHANGED <<script, df, chatbots, max_workers, main_pc, folder,
                   counter_lock, count, response, files, ret>>
    /\ UNCHANGED otherThanFan

\* ask_fn(question) raises, as it would be if the lock were acquired and
\* released by hand and the release skipped by the exception
AskRaiseKeepsLock(k) ==
    /\ pc[k] = "asking"
    /\ faults < MaxFaults
    /\ faults' = faults + 1
    /\ exc' = [exc EXCEPT ![k] = "APIError"]
    /\ results' = [results EXCEPT ![k] = Handle(k, "APIError")]
    /\ pc' = [pc EXCEPT ![k] = "done"]
    /\ UNCHANGED <<script, df, chatbots, max_workers, main_pc, folder, locks,
                   counter_lock, counter, count, response, files, ret>>
    /\ UNCHANGED otherThanFan

\* ask_fn(question) raises; the with block releases the lock and the except
\* branch returns the error row
AskRaise(k) ==
    /\ pc[k] = "asking"
    /\ faults < MaxFaults
    /\ faults' = faults + 1
    /\ locks' = [locks EXCEPT ![BotOf(k)] = NoTask]
    /\ exc' = [exc EXCEPT ![k] = "APIError"]
    /\ results' = [results EXCEPT ![k] = Handle(k, "APIError")]
    /\ pc' = [pc EXCEPT ![k] = "done"]
    /\ df' = RowDictsAfterCopy(k, results'[k])
    /\ UNCHANGED <<script, chatbots, max_workers, main_pc, folder,
                   counter_lock, counter, count, response, files, ret>>
    /\ UNCHANGED otherThanFan

\* with counter_lock: entered
AcquireCounterLock(k) ==
    /\ pc[k] = "lock_counter"
    /\ CounterLockFree
    /\ counter_lock' = k
    /\ pc' = [pc EXCEPT ![k] = "read_counter"]
    /\ UNCHANGED <<script, df, chatbots, max_workers, main_pc, folder, locks,
                   counter, count, response, files, exc, results, ret, faults>>
    /\ UNCHANGED otherThanFan

\* count = counter
ReadCounter(k) ==
    /\ pc[k] = "read_counter"
    /\ count' = [count EXCEPT ![k] = counter]
    /\ pc' = [pc EXCEPT ![k] = "incr_counter"]
    /\ UNCHANGED <<script, df, chatbots, max_workers, main_pc, folder, locks,
                   counter_lock, counter, response, files, exc, results, ret, faults>>
    /\ UNCHANGED otherThanFan

\* the increment is lost: the counter keeps its value
IncrCounterLost(k) ==
    /\ pc[k] = "incr_counter"
    /\ counter' = counter
    /\ counter_lock' = NoTask
    /\ pc' = [pc EXCEPT ![k] = "save"]
    /\ UNCHANGED <<script, df, chatbots, max_workers, main_pc, folder, locks,
                   count, response, files, exc, results, ret, faults>>
    /\ UNCHANGED otherThanFan

\* counter += 1; the with block releases counter_lock
IncrCounter(k) ==
    /\ pc[k] = "incr_counter"
    /\ counter' = counter + 1
    /\ counter_lock' = NoTask
    /\ pc' = [pc EXCEPT ![k] = "save"]
    /\ UNCHANGED <<script, df, chatbots, max_workers, main_pc, folder, locks,
                   count, response, files, exc, results, ret, faults>>
    /\ UNCHANGED otherThanFan

\* open(out_path, "w") and json.dump(response, file) both succeed
SaveOk(k) ==
    /\ pc[k] = "save"
    /\ files' = files \cup {[path |-> OutPath(count[k]), by |-> k, complete |-> TRUE]}
    /\ pc' = [pc EXCEPT ![k] = "upload"]
    /\ UNCHANGED <<script, df, chatbots, max_workers, main_pc, folder, locks,
                   counter_lock, counter, count, response, exc, results, ret, faults>>
    /\ UNCHANGED otherThanFan

\* open(out_path, "w") raises: no file is made
SaveOpenRaise(k) ==
    /\ pc[k] = "save"
    /\ faults < MaxFaults
    /\ faults' = faults + 1
    /\ exc' = [exc EXCEPT ![k] = "OSError"]
    /\ results' = [results EXCEPT ![k] = Handle(k, "OSError")]
    /\ pc' = [pc EXCEPT ![k] = "done"]
    /\ df' = RowDictsAfterCopy(k, results'[k])
    /\ UNCHANGED <<script, chatbots, max_workers, main_pc, folder, locks,
                   counter_lock, counter, count, response, files, ret>>
    /\ UNCHANGED otherThanFan

\* open succeeds and json.dump raises: the file is left incomplete
SaveDumpRaise(k) ==
    /\ pc[k] = "save"
    /\ faults < MaxFaults
    /\ faults' = faults + 1
    /\ files' = files \cup {[path |-> OutPath(count[k]), by |-> k, complete |-> FALSE]}
    /\ exc' = [exc EXCEPT ![k] = "TypeError"]
    /\ results' = [results EXCEPT ![k] = Handle(k, "TypeError")]
    /\ pc' = [pc EXCEPT ![k] = "done"]
    /\ df' = RowDictsAfterCopy(k, results'[k])
    /\ UNCHANGED <<script, chatbots, max_workers, main_pc, folder, locks,
                   counter_lock, counter, count, response, ret>>
    /\ UNCHANGED otherThanFan

\* gd.upload_file returns a link; the success row is returned
UploadReturn(k) ==
    /\ pc[k] = "upload"
    /\ results' = [results EXCEPT ![k] = SuccessRow(k, DriveUrl(OutPath(count[k])))]
    /\ pc' = [pc EXCEPT ![k] = "done"]
    /\ df' = RowDictsAfterCopy(k, results'[k])
    /\ UNCHANGED <<script, chatbots, max_workers, main_pc, folder, locks,
                   counter_lock, counter, count, response, files, ret, faults, exc>>
    /\ UNCHANGED otherThanFan

\* gd.upload_file returns "": the success row is returned with the error message
\* in place of the link
UploadNoUrl(k) ==
    /\ pc[k] = "upload"
    /\ faults < MaxFaults
    /\ faults' = faults + 1
    /\ results' = [results EXCEPT ![k] = SuccessRow(k, "")]
    /\ pc' = [pc EXCEPT ![k] = "done"]
    /\ df' = RowDictsAfterCopy(k, results'[k])
    /\ UNCHANGED <<script, chatbots, max_workers, main_pc, folder, locks,
                   counter_lock, counter, count, response, files, ret, exc>>
    /\ UNCHANGED otherThanFan

\* gd.upload_file raises; the except branch returns the error row
UploadRaise(k) ==
    /\ pc[k] = "upload"
    /\ faults < MaxFaults
    /\ faults' = faults + 1
    /\ exc' = [exc EXCEPT ![k] = "HttpError"]
    /\ results' = [results EXCEPT ![k] = Handle(k, "HttpError")]
    /\ pc' = [pc EXCEPT ![k] = "done"]
    /\ df' = RowDictsAfterCopy(k, results'[k])
    /\ UNCHANGED <<script, chatbots, max_workers, main_pc, folder, locks,
                   counter_lock, counter, count, response, files, ret>>
    /\ UNCHANGED otherThanFan

FanNext ==
    \/ ValidateOk
    \/ ValidateRaise
    \/ Return
    \/ \E k \in Tasks : Start(k)
    \/ \E k \in Tasks : AcquireBotLock(k)
    \/ \E k \in Tasks : AskReturn(k)
    \/ \E k \in Tasks : AskRaise(k)
    \/ \E k \in Tasks : AcquireCounterLock(k)
    \/ \E k \in Tasks : ReadCounter(k)
    \/ \E k \in Tasks : IncrCounter(k)
    \/ \E k \in Tasks : SaveOk(k)
    \/ \E k \in Tasks : SaveOpenRaise(k)
    \/ \E k \in Tasks : SaveDumpRaise(k)
    \/ \E k \in Tasks : UploadReturn(k)
    \/ \E k \in Tasks : UploadNoUrl(k)
    \/ \E k \in Tasks : UploadRaise(k)

(***************************************************************************)
(* Claims about the threaded fan-out, checked under Spec.                  *)
(***************************************************************************)
\* the tasks inside the call cb_functions[chatbot](question) of a chatbot
Asking(bot) == {k \in Tasks : pc[k] = "asking" /\ BotOf(k) = bot}

\* C1: for every chatbot name, at most one task is inside the call to that
\* chatbot's ask function at any time, in every interleaving of the workers.
C1_OneRequestPerChatbot ==
    \A bot \in DOMAIN locks : Cardinality(Asking(bot)) <= 1

\* C1 witness: a task is inside a chatbot's call while another task for the same
\* chatbot has started and waits for the chatbot's lock.
C1_Witness ==
    \E k1, k2 \in Tasks :
        /\ k1 # k2
        /\ BotOf(k1) = BotOf(k2)
        /\ pc[k1] = "asking"
        /\ pc[k2] = "lock_bot"

\* C1, second half (not an invariant but a reachable state): tasks for different
\* chatbots are inside their calls at the same time.
C1_DifferentChatbotsOverlap ==
    \E k1, k2 \in Tasks :
        /\ BotOf(k1) # BotOf(k2)
        /\ pc[k1] = "asking"
        /\ pc[k2] = "asking"

\* C2: within one run no two tasks obtain the same count value, so no two tasks
\* compute the same output file name.
C2_CounterNeverRepeats ==
    \A k1, k2 \in Tasks :
        (k1 # k2 /\ count[k1] # NoCount /\ count[k2] # NoCount)
            => /\ count[k1] # count[k2]
               /\ OutPath(count[k1]) # OutPath(count[k2])

\* C2 witness: two tasks have both obtained counts, and the later task of the
\* list went through the counter section before the earlier one.
C2_Witness ==
    \E k1, k2 \in Tasks :
        /\ k1 < k2
        /\ count[k1] # NoCount
        /\ count[k2] # NoCount
        /\ count[k2] < count[k1]

\* a result row of the error branch of task k
IsErrorRow(r, k) ==
    /\ ~IsPropagated(r)
    /\ r # NoRow
    /\ r["ai client"] = "ERROR w/ " \o BotOf(k)

\* a result row of the success branch of task k
IsSuccessRow(r, k) ==
    /\ ~IsPropagated(r)
    /\ r # NoRow
    /\ r["ai client"] = ask_fn(BotOf(k), QuestionOf(k)).model

\* C3: whichever tasks' chatbot request or save step raises, the fan-out still
\* runs every task, never gets stuck, does not raise, and returns exactly
\* (number of input rows) x (number of chatbots) rows, row k being task k's.
C3_FailuresStayLocal ==
    /\ AllChatbotsKnown => main_pc # "raised"
    /\ main_pc = "run" => ENABLED FanNext
    /\ \A k \in Tasks : exc[k] # "none" => (pc[k] = "done" /\ IsErrorRow(results[k], k))
    /\ main_pc = "returned" =>
          /\ Len(ret) = Len(df) * Len(chatbots)
          /\ \A k \in Tasks :
                /\ pc[k] = "done"
                /\ ret[k].question = QuestionOf(k)
                /\ IF exc[k] = "none" THEN IsSuccessRow(ret[k], k) ELSE IsErrorRow(ret[k], k)

\* C3 witness: the function has returned, a task failed and a task that started
\* asking only after that failure succeeded.
C3_Witness ==
    /\ main_pc = "returned"
    /\ \E k1, k2 \in Tasks :
          /\ k1 < k2
          /\ exc[k1] # "none"
          /\ exc[k2] = "none"
          /\ IsErrorRow(ret[k1], k1)
          /\ IsSuccessRow(ret[k2], k2)

\* C4 (as claimed): in each of the three scripts a task that fails yields a row
\* whose "ai client" is "ERROR w/ {chatbot}" and whose "response url" is exactly
\* "an error occurred".
C4_ErrorRowSentinel ==
    \A k \in Tasks :
        (pc[k] = "done" /\ exc[k] # "none")
            => /\ results[k]["ai client"] = "ERROR w/ " \o BotOf(k)
               /\ results[k]["response url"] = "an error occurred"

\* the files task k opened for writing
FilesOf(k) == {f \in files : f.by = k}

\* no path is written by two tasks
PathsNotShared == \A f1, f2 \in files : f1.path = f2.path => f1.by = f2.by

\* a non-error row corresponds to exactly one complete file, written by its own task
SuccessRowsHaveOwnFile ==
    \A k \in Tasks :
        (pc[k] = "done" /\ IsSuccessRow(results[k], k))
            => /\ Cardinality(FilesOf(k)) = 1
               /\ \A f \in FilesOf(k) :
                     /\ f.complete
                     /\ f.path = OutPath(count[k])
                     /\ results[k]["response url"] \in {DriveUrl(f.path), "error creating url"}

\* C5 (as claimed): every task whose chatbot request returned a response writes
\* exactly one JSON file, at a path no other task writes to; a task whose request
\* raised writes no file; every non-error row corresponds to exactly one file
\* written by its own task.
C5_OneFilePerResponse_Original ==
    /\ \A k \in Tasks :
          (pc[k] = "done" /\ response[k] # NoResponse) => Cardinality(FilesOf(k)) = 1
    /\ PathsNotShared
    /\ \A k \in Tasks : response[k] = NoResponse => FilesOf(k) = {}
    /\ SuccessRowsHaveOwnFile

\* C5 (amended): every task whose chatbot request returned a response and whose
\* open() of the output path did not raise writes exactly one JSON file (left
\* incomplete only if json.dump raised), at a path no other task writes to; a task
\* whose request raised, or whose open() raised, writes no file; every non-error
\* row corresponds to exactly one file written by its own task.
C5_OneFilePerResponse ==
    /\ \A k \in Tasks :
          (pc[k] \in {"upload", "done"} /\ response[k] # NoResponse /\ exc[k] # "OSError")
              => /\ Cardinality(FilesOf(k)) = 1
                 /\ \A f \in FilesOf(k) : f.complete <=> exc[k] # "TypeError"
    /\ PathsNotShared
    /\ \A k \in Tasks : (response[k] = NoResponse \/ exc[k] = "OSError") => FilesOf(k) = {}
    /\ SuccessRowsHaveOwnFile

\* C5 witness: two tasks whose requests returned have each written their own
\* file, a third task's request raised and it wrote none.
C5_Witness ==
    \E k1, k2, k3 \in Tasks :
        /\ k1 # k2
        /\ pc[k1] = "done" /\ IsSuccessRow(results[k1], k1)
        /\ pc[k2] = "done" /\ IsSuccessRow(results[k2], k2)
        /\ Cardinality(FilesOf(k1) \cup FilesOf(k2)) = 2
        /\ pc[k3] = "done" /\ response[k3] = NoResponse /\ FilesOf(k3) = {}

\* C6: at every moment the number of tasks that have started and not yet returned
\* is at most max_workers, however many tasks are queued.
C6_PoolBounded == Cardinality(Active) <= max_workers

\* C6 witness: max_workers tasks are running and a further task is queued behind
\* them.
C6_Witness ==
    /\ Cardinality(Active) = max_workers
    /\ max_workers > 1
    /\ \E k \in Tasks : pc[k] = "queued"

\* the steps of task k, of a worker thread running ask_and_save for it
TaskStep(k) ==
    /\ k \in Tasks
    /\ \/ Start(k)
       \/ AcquireBotLock(k)
       \/ AskReturn(k) \/ AskRaise(k)
       \/ AcquireCounterLock(k)
       \/ ReadCounter(k)
       \/ IncrCounter(k)
       \/ SaveOk(k) \/ SaveOpenRaise(k) \/ SaveDumpRaise(k)
       \/ UploadReturn(k) \/ UploadNoUrl(k) \/ UploadRaise(k)

\* the tasks holding a chatbot lock
HoldsBotLock(k) == \E b \in DOMAIN locks : locks[b] = k

\* no task holds a chatbot lock together with the counter lock, and a chatbot
\* lock is held only by a task inside its request
LocksNeverNested ==
    \A k \in Tasks :
       /\ ~(HoldsBotLock(k) /\ counter_lock = k)
       /\ HoldsBotLock(k) => (pc[k] = "asking" /\ locks[BotOf(k)] = k)
       /\ counter_lock = k => pc[k] \in {"read_counter", "incr_counter"}

\* the function has returned the row of every task
AllRowsReturned ==
    /\ main_pc = "returned"
    /\ Len(ret) = NumTasks
    /\ \A k \in Tasks : pc[k] = "done" /\ results[k] # NoRow

\* C22: the fan-out cannot deadlock and always finishes: no task ever holds a
\* chatbot lock and the counter lock at the same time, a chatbot lock is
\* released when its request returns or raises, and, if every chatbot request
\* and upload eventually returns or raises, every task eventually produces its
\* row and the function returns.
C22_NoDeadlockAlwaysFinishes ==
    /\ []LocksNeverNested
    /\ [](main_pc = "run" => ENABLED FanNext)
    /\ (main_pc = "run") ~> AllRowsReturned
    /\ <>(main_pc \in {"returned", "raised"})

\* C22 witness: a request to a chatbot raised, and a later task for the same
\* chatbot is inside its request, holding the lock the failed task released.
C22_Witness ==
    \E k1, k2 \in Tasks :
        /\ k1 < k2
        /\ BotOf(k1) = BotOf(k2)
        /\ pc[k1] = "done"
        /\ exc[k1] = "APIError"
        /\ pc[k2] = "asking"
        /\ locks[BotOf(k2)] = k2

\* the tasks whose chatbot request returned without raising
Answered == {k \in Tasks : response[k] # NoResponse}

\* the tasks that have left the counter section
Counted == {k \in Tasks : count[k] # NoCount /\ pc[k] \in {"save", "upload", "done"}}

\* the count values handed out so far
CountsHandedOut == {count[k] : k \in {j \in Tasks : count[j] # NoCount}}

\* the counter counts the tasks that have left the counter section, the counts
\* handed out are the numbers below it (and the counter itself while a task is
\* between its read and its increment), and only answered tasks have a count
CounterGapFree ==
    /\ main_pc = "validate" => counter = 0
    /\ counter = Cardinality(Counted)
    /\ CountsHandedOut =
          (0..(counter - 1)) \cup {counter : k \in {j \in Tasks : pc[j] = "incr_counter"}}
    /\ \A k \in Tasks : count[k] # NoCount => k \in Answered
    /\ main_pc = "returned" =>
          /\ counter = Cardinality(Answered)
          /\ CountsHandedOut = 0..(counter - 1)

\* a step leaves the counter alone, or is the increment of a task whose request
\* returned and adds exactly 1
CounterStep ==
    \/ counter' = counter
    \/ /\ counter' = counter + 1
       /\ \E k \in Tasks :
             /\ k \in Answered
             /\ exc[k] = "none"
             /\ pc[k] = "incr_counter"
             /\ pc'[k] = "save"

\* C23: the shared counter is monotonic and gap-free: it starts at 0, never
\* decreases, increases by exactly 1 each time a chatbot request returns
\* without raising and is not changed by a task whose request raised; at the
\* end of the run its value equals the number of tasks whose chatbot request
\* succeeded, and the count values handed out are exactly 0 .. value-1.
C23_CounterMonotonicGapFree == []CounterGapFree /\ [][CounterStep]_fanVars

\* C23 witness: the function returned after three tasks of which one request
\* raised: the counter is 2 and the counts handed out are 0 and 1.
C23_Witness ==
    /\ main_pc = "returned"
    /\ NumTasks = 3
    /\ \E k \in Tasks : response[k] = NoResponse /\ exc[k] = "APIError" /\ count[k] = NoCount
    /\ counter = 2
    /\ CountsHandedOut = {0, 1}

\* the columns added to a row
ResultFields == {"ai client", "response url"}

\* the values the "response url" of task k's row can have
OwnUrls(k) ==
    {"an error occurred", "an error ocurred", "error creating url"}
        \cup (IF count[k] = NoCount THEN {} ELSE {DriveUrl(OutPath(count[k]))})

IsRowOfTask(r, k) ==
    /\ r.question = QuestionOf(k)
    /\ \A f \in DOMAIN df[RowOf(k)] : r[f] = df[RowOf(k)][f]
    /\ r["ai client"] \in {"ERROR w/ " \o BotOf(k), ask_fn(BotOf(k), QuestionOf(k)).model}

\* the count in the file name of a row that has a link
RowNamesCount(r, c) == r["response url"] = DriveUrl(OutPath(c))

\* C21: the rows the fan-out returns are in task order, input rows in order and
\* for each row the chatbots in list order, in every interleaving of the
\* workers: the row at position i * |chatbots| + j is the result of (row i,
\* chatbot j).  The count in a row's file name is the one its task took in the
\* counter section, whatever the row's position.
C21_RowsInTaskOrder ==
    main_pc = "returned" =>
        /\ Len(ret) = Len(df) * Len(chatbots)
        /\ \A i \in 0..(Len(df) - 1) : \A j \in 0..(Len(chatbots) - 1) :
              LET r == ret[i * Len(chatbots) + j + 1]
              IN /\ r.question = df[i + 1].question
                 /\ \A f \in DOMAIN df[i + 1] : r[f] = df[i + 1][f]
                 /\ r["ai client"] \in {"ERROR w/ " \o chatbots[j + 1],
                                        ask_fn(chatbots[j + 1], df[i + 1].question).model}
        /\ \A k \in Tasks :
              (exc[k] = "none" /\ ret[k]["response url"] # "error creating url")
                  => RowNamesCount(ret[k], count[k])

\* C21 witness: the function returned its rows in task order although the
\* second task went through the counter section before the first, so that the
\* counts in the file names of the first two rows are 1 and 0.
C21_Witness ==
    /\ main_pc = "returned"
    /\ NumTasks >= 2
    /\ IsRowOfTask(ret[1], 1)
    /\ IsRowOfTask(ret[2], 2)
    /\ RowNamesCount(ret[1], 1)
    /\ RowNamesCount(ret[2], 0)

(***************************************************************************)
(* The Save Page Now poller: retrieve_spn_url of internetarchive.py.       *)
(***************************************************************************)
\* most status checks of a run tried besides the default
MaxTries == 3

\* max_tries = 40 in the signature of retrieve_spn_url
DefaultMaxTries == 40

NoneValue == "None"
Unset == "(unset)"
NoData == [none |-> TRUE]
NoSubmit == [none |-> TRUE]

\* bodies of the response of send_spn_request: with a job_id, and without one
SubmitBodies == {[job_id |-> "spn2-1"], [message |-> "no job"]}

\* bodies a status request answers with that report another status than "success"
NotSuccessBodies == {[status |-> "pending"], [status |-> "error", message |-> "failed"]}

\* bodies that report "success" and carry the fields of the archive URL
SuccessBodies ==
    {[status |-> "success", timestamp |-> "20250730120000", original_url |-> "http://a.example/"],
     [status |-> "success", timestamp |-> "20250730120500", original_url |-> "http://b.example/"]}

\* bodies that report "success" and lack a field of the archive URL
SuccessBodiesLackingField ==
    {[status |-> "success", original_url |-> "http://a.example/"],
     [status |-> "success", timestamp |-> "20250730120000"]}

\* bodies without a status
BodiesLackingStatus == {[message |-> "not found"]}

\* f"https://web.archive.org/web/{data["timestamp"]}/{data["original_url"]}"
ArchiveUrl(d) == "https://web.archive.org/web/" \o d.timestamp \o "/" \o d.original_url

SpnInit ==
    /\ spn_pc = "start"
    /\ spn_response \in {NoSubmit} \cup SubmitBodies
    /\ max_tries \in (0..MaxTries) \cup {DefaultMaxTries}
    /\ attempt = 0
    /\ requests = 0
    /\ sleeps = 0
    /\ data = NoData
    /\ successes = 0
    /\ not_success = 0
    /\ spn_ret = Unset

\* if response is None: return None
SpnNothingToCheck ==
    /\ spn_pc = "start"
    /\ spn_response = NoSubmit
    /\ spn_pc' = "done"
    /\ spn_ret' = NoneValue
    /\ UNCHANGED <<spn_response, max_tries, attempt, requests, sleeps, data,
                   successes, not_success>>
    /\ UNCHANGED otherThanSpn

\* status_id = response.json()["job_id"]: the loop is entered, or the KeyError is
\* caught by except Exception and None is returned
SpnExtractJobId ==
    /\ spn_pc = "start"
    /\ spn_response # NoSubmit
    /\ IF "job_id" \in DOMAIN spn_response
       THEN spn_pc' = "loop" /\ spn_ret' = spn_ret
       ELSE spn_pc' = "done" /\ spn_ret' = NoneValue
    /\ UNCHANGED <<spn_response, max_tries, attempt, requests, sleeps, data,
                   successes, not_success>>
    /\ UNCHANGED otherThanSpn

MoreTriesOffByOne == attempt <= max_tries

\* the check raises, as it would be if the try block were inside the loop and
\* its except branch went on to the wait and the next try
SpnCheckRaisesRetried ==
    /\ spn_pc = "loop"
    /\ attempt < max_tries
    /\ requests' = requests + 1
    /\ spn_pc' = "sleep"
    /\ UNCHANGED <<spn_response, max_tries, attempt, sleeps, data, successes, not_success,
                   spn_ret>>
    /\ UNCHANGED otherThanSpn

\* for attempt in range(max_tries): another iteration follows
MoreTries == attempt < max_tries

\* requests.get raises Timeout, or raise_for_status raises HTTPError: the except
\* branches return None
SpnCheckRaises ==
    /\ spn_pc = "loop"
    /\ MoreTries
    /\ requests' = requests + 1
    /\ spn_pc' = "done"
    /\ spn_ret' = NoneValue
    /\ UNCHANGED <<spn_response, max_tries, attempt, sleeps, data, successes, not_success>>
    /\ UNCHANGED otherThanSpn

\* the request returns a body without a status: data["status"] raises KeyError,
\* except Exception returns None
SpnCheckLacksStatus ==
    /\ spn_pc = "loop"
    /\ MoreTries
    /\ requests' = requests + 1
    /\ data' \in BodiesLackingStatus
    /\ spn_pc' = "done"
    /\ spn_ret' = NoneValue
    /\ UNCHANGED <<spn_response, max_tries, attempt, sleeps, successes, not_success>>
    /\ UNCHANGED otherThanSpn

\* the request returns a body whose status is not "success": wait before the next try
SpnCheckNotSuccess ==
    /\ spn_pc = "loop"
    /\ MoreTries
    /\ requests' = requests + 1
    /\ data' \in NotSuccessBodies
    /\ not_success' = not_success + 1
    /\ spn_pc' = "sleep"
    /\ UNCHANGED <<spn_response, max_tries, attempt, sleeps, successes, spn_ret>>
    /\ UNCHANGED otherThanSpn

\* the check goes on to wait and try again although the status is "success"
SpnCheckSuccessNoReturn ==
    /\ spn_pc = "loop"
    /\ MoreTries
    /\ requests' = requests + 1
    /\ data' \in SuccessBodies \cup SuccessBodiesLackingField
    /\ successes' = successes + 1
    /\ spn_pc' = "sleep"
    /\ UNCHANGED <<spn_response, max_tries, attempt, sleeps, not_success, spn_ret>>
    /\ UNCHANGED otherThanSpn

\* the request returns a body whose status is "success": the archive URL is built
\* and returned; a missing timestamp or original_url raises KeyError and
\* except Exception returns None
SpnCheckSuccess ==
    /\ spn_pc = "loop"
    /\ MoreTries
    /\ requests' = requests + 1
    /\ data' \in SuccessBodies \cup SuccessBodiesLackingField
    /\ successes' = successes + 1
    /\ spn_pc' = "done"
    /\ spn_ret' = IF {"timestamp", "original_url"} \subseteq DOMAIN data'
                  THEN ArchiveUrl(data')
                  ELSE NoneValue
    /\ UNCHANGED <<spn_response, max_tries, attempt, sleeps, not_success>>
    /\ UNCHANGED otherThanSpn

\* time.sleep(try_interval), then the next iteration
SpnSleep ==
    /\ spn_pc = "sleep"
    /\ sleeps' = sleeps + 1
    /\ attempt' = attempt + 1
    /\ spn_pc' = "loop"
    /\ UNCHANGED <<spn_response, max_tries, requests, data, successes, not_success, spn_ret>>
    /\ UNCHANGED otherThanSpn

\* the loop ends: "SPN Exceeded maximum tries", return None
SpnExceeded ==
    /\ spn_pc = "loop"
    /\ ~MoreTries
    /\ spn_pc' = "done"
    /\ spn_ret' = NoneValue
    /\ UNCHANGED <<spn_response, max_tries, attempt, requests, sleeps, data,
                   successes, not_success>>
    /\ UNCHANGED otherThanSpn

\* a status request is issued
SpnCheck ==
    \/ SpnCheckRaises
    \/ SpnCheckLacksStatus
    \/ SpnCheckNotSuccess
    \/ SpnCheckSuccess

SpnNext ==
    \/ SpnNothingToCheck
    \/ SpnExtractJobId
    \/ SpnCheckRaises
    \/ SpnCheckLacksStatus
    \/ SpnCheckNotSuccess
    \/ SpnCheckSuccess
    \/ SpnSleep
    \/ SpnExceeded

(***************************************************************************)
(* Claims about retrieve_spn_url, checked under SpecSpn.                   *)
(***************************************************************************)
\* C7: retrieve_spn_url issues at most max_tries status requests, and when
\* max_tries consecutive checks have completed without reporting "success" it
\* polls no more and returns None.
C7_BoundedPolling ==
    /\ requests <= max_tries
    /\ not_success <= max_tries
    /\ (not_success = max_tries /\ spn_pc \in {"loop", "sleep"}) => ~ENABLED SpnCheck
    /\ (not_success = max_tries /\ spn_pc = "done" /\ requests > 0)
          => (spn_ret = NoneValue /\ requests = max_tries /\ successes = 0)

\* C7 witness: max_tries >= 2 checks completed without "success" and None was
\* returned.
C7_Witness ==
    /\ spn_pc = "done"
    /\ max_tries >= 2
    /\ not_success = max_tries
    /\ spn_ret = NoneValue

\* the last check reported "success"
LastCheckSucceeded == data # NoData /\ "status" \in DOMAIN data /\ data.status = "success"

\* data carries the fields of the archive URL
HasUrlFields == {"timestamp", "original_url"} \subseteq DOMAIN data

\* a URL is returned only after a check that reported "success", and on the first
\* such check no further status request or wait follows
ReturnsOnFirstSuccess ==
    /\ (spn_pc = "done" /\ spn_ret # NoneValue) => (successes = 1 /\ LastCheckSucceeded)
    /\ successes <= 1
    /\ successes = 1 =>
          /\ spn_pc = "done"
          /\ LastCheckSucceeded
          /\ requests = not_success + 1
          /\ sleeps = not_success
    /\ (spn_pc = "done" /\ successes = 0) => spn_ret = NoneValue

\* C8 (as claimed): a URL is returned only if some check reported "success"; on
\* the first check that reports "success" the function returns the archive URL
\* built from that check's data and issues no further request or wait; in every
\* other outcome it returns None.
C8_UrlOnlyOnSuccess_Original ==
    /\ ReturnsOnFirstSuccess
    /\ successes = 1 => (spn_ret # NoneValue /\ (HasUrlFields => spn_ret = ArchiveUrl(data)))

\* C8 (amended): a URL is returned only if some check reported "success"; on the
\* first check that reports "success" the function issues no further request or
\* wait and returns the archive URL built from that check's data if the data
\* carries timestamp and original_url, and None if it lacks one of them; in every
\* other outcome it returns None.
C8_UrlOnlyOnSuccess ==
    /\ ReturnsOnFirstSuccess
    /\ successes = 1 => spn_ret = IF HasUrlFields THEN ArchiveUrl(data) ELSE NoneValue

\* C8 witness: after a check without success and a wait, a check reported
\* "success" and its archive URL was returned.
C8_Witness ==
    /\ spn_pc = "done"
    /\ not_success >= 1
    /\ successes = 1
    /\ HasUrlFields
    /\ spn_ret = ArchiveUrl(data)


\* the status requests that raised an HTTP error, timed out or returned a body
\* without a status
FailedChecks == requests - successes - not_success

\* C25: in retrieve_spn_url a transport failure is not retried: if any status
\* request raises an HTTP error, times out, or returns a body without the
\* expected fields, polling stops immediately and None is returned even when
\* fewer than max_tries checks have been made; only a well-formed non-success
\* status leads to another check.
C25_FailureNotRetried ==
    /\ FailedChecks \in {0, 1}
    /\ FailedChecks = 1 =>
          /\ spn_pc = "done"
          /\ spn_ret = NoneValue
          /\ successes = 0
          /\ sleeps = not_success
    /\ (successes = 1 /\ ~HasUrlFields) => (spn_pc = "done" /\ spn_ret = NoneValue)
    /\ spn_pc \in {"loop", "sleep"} =>
          /\ requests = not_success
          /\ requests > 0 =>
                /\ "status" \in DOMAIN data
                /\ data.status # "success"
    /\ sleeps <= not_success

\* C25 witness: after one check that reported a status other than "success"
\* and one wait, the second of forty checks raised or came without a status,
\* and None was returned at once.
C25_Witness ==
    /\ spn_pc = "done"
    /\ max_tries = DefaultMaxTries
    /\ requests = 2
    /\ not_success = 1
    /\ sleeps = 1
    /\ FailedChecks = 1
    /\ spn_ret = NoneValue

\* C25 second witness: the body of the first check had no status.
C25_BodyWithoutStatus ==
    /\ spn_pc = "done"
    /\ requests = 1
    /\ data \in BodiesLackingStatus
    /\ max_tries > 1
    /\ spn_ret = NoneValue

(***************************************************************************)
(* save_page of internetarchive.py: send_spn_request, then                 *)
(* retrieve_spn_url with its default try_interval and max_tries.           *)
(***************************************************************************)
\* what requests.post(...) or response.raise_for_status() may raise
SendExceptions == {"HTTPError", "Timeout", "ConnectionError"}

\* except requests.exceptions.HTTPError only
SendCatchesOnlyHttpError(e) == e = "HTTPError"

\* except requests.exceptions.HTTPError, except requests.exceptions.Timeout,
\* except Exception
SendCatches(e) == e \in {"HTTPError", "Timeout"} \/ e \in SendExceptions

SaveInit ==
    /\ save_pc = "send"
    /\ send_exc = "none"
    /\ archive_url = Unset

\* send_spn_request: the POST or raise_for_status raises, the handler prints
\* and returns None, and save_page calls retrieve_spn_url(..., None)
SaveSendFails ==
    /\ save_pc = "send"
    /\ \E e \in SendExceptions :
          /\ send_exc' = e
          /\ IF SendCatches(e)
             THEN /\ save_pc' = "retrieve"
                  /\ spn_pc' = "start"
                  /\ spn_response' = NoSubmit
             ELSE /\ save_pc' = "raised"
                  /\ UNCHANGED <<spn_pc, spn_response>>
    /\ UNCHANGED <<archive_url, max_tries, attempt, requests, sleeps, data,
                   successes, not_success, spn_ret>>
    /\ UNCHANGED otherThanSave

\* send_spn_request returns the response of the POST, and save_page calls
\* retrieve_spn_url with it
SaveSendOk ==
    /\ save_pc = "send"
    /\ save_pc' = "retrieve"
    /\ spn_pc' = "start"
    /\ spn_response' \in SubmitBodies
    /\ UNCHANGED <<send_exc, archive_url, max_tries, attempt, requests, sleeps, data,
                   successes, not_success, spn_ret>>
    /\ UNCHANGED otherThanSave

\* return archive_url
SaveReturn ==
    /\ save_pc = "retrieve"
    /\ spn_pc = "done"
    /\ archive_url' = spn_ret
    /\ save_pc' = "returned"
    /\ UNCHANGED <<send_exc, spnVars>>
    /\ UNCHANGED otherThanSave

SaveNext ==
    \/ SaveSendFails
    \/ SaveSendOk
    \/ SaveReturn
    \/ SpnNothingToCheck
    \/ SpnExtractJobId
    \/ SpnCheckRaises
    \/ SpnCheckLacksStatus
    \/ SpnCheckNotSuccess
    \/ SpnCheckSuccess
    \/ SpnSleep
    \/ SpnExceeded

(***************************************************************************)
(* Claims about save_page, checked under SpecSave.                         *)
(***************************************************************************)
\* C13: save_page never raises: it returns the archive URL of a successful
\* archive, or None if anything failed; when the submit request fails with an
\* HTTP error, a timeout or another exception, send_spn_request yields None and
\* retrieve_spn_url issues no status request.
C13_SavePageNeverRaises ==
    /\ save_pc # "raised"
    /\ save_pc = "returned" =>
          \/ archive_url = NoneValue
          \/ /\ successes = 1
             /\ LastCheckSucceeded /\ HasUrlFields
             /\ archive_url = ArchiveUrl(data)
    /\ (save_pc = "returned" /\ archive_url # NoneValue) => send_exc = "none"
    /\ send_exc # "none" =>
          /\ spn_response = NoSubmit
          /\ requests = 0 /\ sleeps = 0
          /\ spn_pc = "done" => spn_ret = NoneValue

\* C13 witness: the submit request timed out and save_page returned None
\* without a status request.
C13_Witness ==
    /\ save_pc = "returned"
    /\ send_exc = "Timeout"
    /\ archive_url = NoneValue
    /\ requests = 0

\* save_page returned the archive URL after a check that reported success
C13_ArchiveUrlReturned ==
    /\ save_pc = "returned"
    /\ send_exc = "none"
    /\ LastCheckSucceeded /\ HasUrlFields
    /\ archive_url = ArchiveUrl(data)

(***************************************************************************)
(* The headline splitter: split_titles of googlenews.py (the same code is  *)
(* in google-news/googleNews.py).  A headline is a sequence of pieces of   *)
(* text: the characters " " and "-" and words, which hold neither.         *)
(***************************************************************************)
\* most pieces a headline is put together from
MaxPieces == 5

\* " - "
Hyphen == <<" ", "-", " ">>

\* the two halves of the outlet name of one_hyphen_exceptions
AbcNews == "ABC News"
BreakingNews == "Breaking News, Latest News and Videos"

\* one_hyphen_exceptions = ["ABC News - Breaking News, Latest News and Videos"]
one_hyphen_exceptions == {<<AbcNews>> \o Hyphen \o <<BreakingNews>>}

\* the pieces headlines are put together from
Pieces == {<<"w">>, <<AbcNews>>, <<BreakingNews>>, Hyphen, <<"-">>, <<" ">>}

RECURSIVE Headlines(_)
\* the headlines of at most n pieces
Headlines(n) ==
    IF n = 0 THEN {<<>>}
    ELSE LET shorter == Headlines(n - 1)
         IN shorter \cup {h \o p : h \in shorter, p \in Pieces}

\* the separator starts at position i of s
HyphenAt(s, i) == i + 2 <= Len(s) /\ SubSeq(s, i, i + 2) = Hyphen

\* the position of the first separator of s at or after i, 0 if there is none
RECURSIVE FindHyphen(_, _)
FindHyphen(s, i) ==
    IF i + 2 > Len(s) THEN 0
    ELSE IF HyphenAt(s, i) THEN i
    ELSE FindHyphen(s, i + 1)

\* title.split(" - "): the parts between the separators, found left to right
RECURSIVE Split(_)
Split(s) ==
    LET i == FindHyphen(s, 1)
    IN IF i = 0 THEN <<s>>
       ELSE <<SubSeq(s, 1, i - 1)>> \o Split(SubSeq(s, i + 3, Len(s)))

\* " - ".join(parts)
RECURSIVE Join(_)
Join(parts) ==
    IF Len(parts) = 0 THEN <<>>
    ELSE IF Len(parts) = 1 THEN parts[1]
    ELSE parts[1] \o Hyphen \o Join(Tail(parts))

\* the case of exactly two parts is handled as the case of no separator
split_single_title_no_split(t) ==
    LET parts == Split(t)
    IN IF Len(parts) > 2
       THEN LET last_two == Join(SubSeq(parts, Len(parts) - 1, Len(parts)))
            IN IF last_two \in one_hyphen_exceptions
               THEN <<Join(SubSeq(parts, 1, Len(parts) - 2)), last_two>>
               ELSE <<Join(SubSeq(parts, 1, Len(parts) - 1)), parts[Len(parts)]>>
       ELSE <<t, <<>>>>

\* split_single_title(title): the pair (title, news outlet)
split_single_title(t) ==
    LET parts == Split(t)
    IN IF Len(parts) = 2 THEN parts
       ELSE IF Len(parts) > 2
       THEN LET last_two == Join(SubSeq(parts, Len(parts) - 1, Len(parts)))
            IN IF last_two \in one_hyphen_exceptions
               THEN <<Join(SubSeq(parts, 1, Len(parts) - 2)), last_two>>
               ELSE <<Join(SubSeq(parts, 1, Len(parts) - 1)), parts[Len(parts)]>>
       ELSE <<t, <<>>>>

TitleInit ==
    /\ title_pc = "input"
    /\ title \in Headlines(MaxPieces)
    /\ news_title = <<>>
    /\ news_outlet = <<>>

\* df[['title', 'news-outlet']] = df['title'].apply(split_single_title)
SplitTitles ==
    /\ title_pc = "input"
    /\ title_pc' = "split"
    /\ news_title' = split_single_title(title)[1]
    /\ news_outlet' = split_single_title(title)[2]
    /\ UNCHANGED title
    /\ UNCHANGED otherThanTitle

TitleNext == SplitTitles

(***************************************************************************)
(* Claims about split_titles, checked under SpecTitles.                    *)
(***************************************************************************)
\* the separators of s, counted left to right without overlap
RECURSIVE NumHyphens(_, _)
NumHyphens(s, i) ==
    IF i + 2 > Len(s) THEN 0
    ELSE IF HyphenAt(s, i) THEN 1 + NumHyphens(s, i + 3)
    ELSE NumHyphens(s, i + 1)

\* C9 (as claimed): for all headlines with zero or one separator " - ",
\* title-splitting returns the original title unchanged and an empty outlet.
C9_FewHyphens_Original ==
    (title_pc = "split" /\ NumHyphens(title, 1) <= 1)
        => (news_title = title /\ news_outlet = <<>>)

\* C9 (amended): for all headlines with no separator " - ", title-splitting
\* returns the original title unchanged and an empty outlet; for all headlines
\* with exactly one separator it returns the text before the separator as the
\* title and the text after it as the outlet.
C9_FewHyphens ==
    /\ (title_pc = "split" /\ NumHyphens(title, 1) = 0)
          => (news_title = title /\ news_outlet = <<>>)
    /\ (title_pc = "split" /\ NumHyphens(title, 1) = 1)
          => /\ news_title \o Hyphen \o news_outlet = title
             /\ NumHyphens(news_title, 1) = 0
             /\ Len(news_title) < Len(title)

\* C9 witness: a headline with one separator has been split into the text before
\* it and the outlet after it.
C9_Witness ==
    /\ title_pc = "split"
    /\ title = <<"w">> \o Hyphen \o <<AbcNews>>
    /\ news_title = <<"w">>
    /\ news_outlet = <<AbcNews>>


(***************************************************************************)
(* The Google Sheets wrappers of googlesheets.py.  A call in progress is a *)
(* frame [fn, at, tab, failed]: the function, the position in it, its tab  *)
(* name argument and whether a request of the call has failed.             *)
(***************************************************************************)
\* the functions that wrap their requests in try ... except HttpError
SheetFunctions ==
    {"create_spreadsheet", "pd_to_sheet", "append_row", "get_tab_id", "delete_tab",
     "apply_formatting"}

\* the tab_name arguments tried; NoTab stands for tab_name = None
NoTab == "(no tab)"
TabNames == {"Sheet1", "data"}

\* file.get("id") of the created spreadsheet
SheetId == "sheet-1"

\* s["properties"]["sheetId"] of a tab
TabId(tab) == "tab-id:" \o tab

Frame(fn, tab) == [fn |-> fn, at |-> "start", tab |-> tab, failed |-> FALSE]

Top == gs_stack[Len(gs_stack)]
Callers == SubSeq(gs_stack, 1, Len(gs_stack) - 1)

\* the innermost call is fn at position at
At(fn, at) == Len(gs_stack) > 0 /\ Top.fn = fn /\ Top.at = at

\* the innermost call moves to position at
Goto(at) == gs_stack' = [gs_stack EXCEPT ![Len(gs_stack)].at = at]

\* the call at depth d returns v to its caller; failed: a request failed during
\* the call, issued by the call at depth origin (d itself when none failed)
ReturnFrom(d, v, failed, origin) ==
    /\ gs_stack' = SubSeq(gs_stack, 1, d - 1)
    /\ gs_returns' = gs_returns \cup
          {[fn |-> gs_stack[d].fn, depth |-> d, value |-> v, failed |-> failed,
            origin |-> gs_stack[origin].fn, origin_depth |-> origin]}
    /\ IF d = 1
       THEN gs_ret' = v /\ gs_val' = gs_val
       ELSE gs_val' = v /\ gs_ret' = gs_ret

\* the innermost call returns v
Return_(v) == ReturnFrom(Len(gs_stack), v, Top.failed, Len(gs_stack))

\* the innermost call calls fn(tab) and goes on at position at afterwards
Call(fn, tab, at) ==
    gs_stack' = [gs_stack EXCEPT ![Len(gs_stack)].at = at] \o <<Frame(fn, tab)>>

CatchesHttpErrorNotInAppendRow(fn) == fn \in SheetFunctions \ {"append_row"}

\* the function has an except HttpError clause around its requests
CatchesHttpError(fn) == fn \in SheetFunctions

\* the calls in progress that catch an HttpError raised in the innermost call
Catchers == {d \in 1..Len(gs_stack) : CatchesHttpError(gs_stack[d].fn)}

\* a request of the innermost call raises HttpError: the innermost call with an
\* except HttpError clause prints "ERROR: ..." and returns None; an HttpError no
\* call catches leaves the outermost call
HttpErrorRaised ==
    /\ gs_errors' = gs_errors + 1
    /\ IF Catchers = {}
       THEN /\ gs_raised' = "HttpError"
            /\ gs_stack' = <<>>
            /\ UNCHANGED <<gs_logged, gs_returns, gs_val, gs_ret>>
       ELSE LET d == CHOOSE c \in Catchers : \A c2 \in Catchers : c2 <= c
            IN /\ gs_logged' = gs_logged + 1
               /\ ReturnFrom(d, NoneValue, TRUE, Len(gs_stack))
               /\ UNCHANGED gs_raised

\* the positions at which a call issues a request
RequestPositions ==
    {<<"create_spreadsheet", "start">>, <<"create_spreadsheet", "permission">>,
     <<"pd_to_sheet", "start">>, <<"pd_to_sheet", "update">>,
     <<"append_row", "start">>, <<"get_tab_id", "start">>,
     <<"delete_tab", "start">>, <<"delete_tab", "delete">>,
     <<"apply_formatting", "start">>}

GsInit ==
    /\ \E fn \in SheetFunctions :
          \E tab \in TabNames \cup {NoTab} :
             /\ tab = NoTab => fn \in {"create_spreadsheet", "apply_formatting"}
             /\ fn = "apply_formatting" => tab = NoTab
             /\ gs_stack = <<Frame(fn, tab)>>
             /\ gs_tabs \in (IF fn = "create_spreadsheet" THEN {{}} ELSE {{"Sheet1"}, {"Sheet1", "data"}})
    /\ gs_public \in BOOLEAN
    /\ gs_written = {}
    /\ gs_val = Unset
    /\ gs_ret = Unset
    /\ gs_raised = "none"
    /\ gs_errors = 0
    /\ gs_logged = 0
    /\ gs_returns = {}
    /\ gs_log = <<>>

\* the log of pd_to_sheet once the innermost call has issued a request
Logged(request, outcome) ==
    Append(gs_log, [request |-> request, outcome |-> outcome, tab |-> Top.tab])

\* any request fails with an HttpError other than "already exists"
GsRequestFails ==
    /\ Len(gs_stack) > 0
    /\ <<Top.fn, Top.at>> \in RequestPositions
    /\ HttpErrorRaised
    /\ gs_log' = IF Top.fn = "pd_to_sheet"
                 THEN Logged(IF Top.at = "start" THEN "addSheet" ELSE "update", "error")
                 ELSE gs_log
    /\ UNCHANGED <<gs_public, gs_tabs, gs_written>>
    /\ UNCHANGED otherThanGs

\* create_spreadsheet: drive_service.files().create(...).execute()
GsCreateFile ==
    /\ At("create_spreadsheet", "start")
    /\ gs_tabs' = {"Sheet1"}
    /\ Goto(IF gs_public THEN "permission" ELSE "tab")
    /\ UNCHANGED <<gs_public, gs_written, gs_val, gs_ret, gs_raised, gs_errors,
                   gs_logged, gs_returns>>
    /\ UNCHANGED gs_log
    /\ UNCHANGED otherThanGs

\* create_spreadsheet: drive_service.permissions().create(...).execute()
GsMakePublic ==
    /\ At("create_spreadsheet", "permission")
    /\ Goto("tab")
    /\ UNCHANGED <<gs_public, gs_tabs, gs_written, gs_val, gs_ret, gs_raised,
                   gs_errors, gs_logged, gs_returns>>
    /\ UNCHANGED gs_log
    /\ UNCHANGED otherThanGs

\* create_spreadsheet: if tab_name: create_tab(sheet_id, creds, tab_name)
GsCallCreateTab ==
    /\ At("create_spreadsheet", "tab")
    /\ Top.tab # NoTab
    /\ Call("create_tab", Top.tab, "delete_default")
    /\ UNCHANGED <<gs_public, gs_tabs, gs_written, gs_val, gs_ret, gs_raised,
                   gs_errors, gs_logged, gs_returns>>
    /\ UNCHANGED gs_log
    /\ UNCHANGED otherThanGs

\* create_spreadsheet: delete_tab(sheet_id, creds, "Sheet1")
GsCallDeleteDefault ==
    /\ At("create_spreadsheet", "delete_default")
    /\ Call("delete_tab", "Sheet1", "return")
    /\ UNCHANGED <<gs_public, gs_tabs, gs_written, gs_val, gs_ret, gs_raised,
                   gs_errors, gs_logged, gs_returns>>
    /\ UNCHANGED gs_log
    /\ UNCHANGED otherThanGs

\* create_spreadsheet: return sheet_id
GsReturnSheetId ==
    /\ \/ At("create_spreadsheet", "tab") /\ Top.tab = NoTab
       \/ At("create_spreadsheet", "return")
    /\ Return_(SheetId)
    /\ UNCHANGED <<gs_public, gs_tabs, gs_written, gs_raised, gs_errors, gs_logged>>
    /\ UNCHANGED gs_log
    /\ UNCHANGED otherThanGs

\* create_tab: pd_to_sheet(sheet_id, creds, empty_df, tab_name)
GsCreateTabCallsPdToSheet ==
    /\ At("create_tab", "start")
    /\ Call("pd_to_sheet", Top.tab, "return")
    /\ UNCHANGED <<gs_public, gs_tabs, gs_written, gs_val, gs_ret, gs_raised,
                   gs_errors, gs_logged, gs_returns>>
    /\ UNCHANGED gs_log
    /\ UNCHANGED otherThanGs

\* create_tab returns None
GsCreateTabReturns ==
    /\ At("create_tab", "return")
    /\ Return_(NoneValue)
    /\ UNCHANGED <<gs_public, gs_tabs, gs_written, gs_raised, gs_errors, gs_logged>>
    /\ UNCHANGED gs_log
    /\ UNCHANGED otherThanGs

\* pd_to_sheet: the addSheet request makes the tab
GsAddSheet ==
    /\ At("pd_to_sheet", "start")
    /\ Top.tab \notin gs_tabs
    /\ gs_tabs' = gs_tabs \cup {Top.tab}
    /\ gs_log' = Logged("addSheet", "ok")
    /\ Goto("update")
    /\ UNCHANGED <<gs_public, gs_written, gs_val, gs_ret, gs_raised, gs_errors,
                   gs_logged, gs_returns>>
    /\ UNCHANGED otherThanGs

\* pd_to_sheet as it would be if the inner except raised again whatever the
\* message: the outer except prints the error and the function ends
GsAddSheetExistsRaisedAgain ==
    /\ At("pd_to_sheet", "start")
    /\ Top.tab \in gs_tabs
    /\ gs_log' = Logged("addSheet", "already exists")
    /\ HttpErrorRaised
    /\ UNCHANGED <<gs_public, gs_tabs, gs_written>>
    /\ UNCHANGED otherThanGs

\* pd_to_sheet: the addSheet request fails with "already exists": the inner
\* except prints "Tab ... exists, skipping creation." and the write follows
GsAddSheetExists ==
    /\ At("pd_to_sheet", "start")
    /\ Top.tab \in gs_tabs
    /\ gs_log' = Logged("addSheet", "already exists")
    /\ gs_errors' = gs_errors + 1
    /\ gs_logged' = gs_logged + 1
    /\ gs_stack' = [gs_stack EXCEPT ![Len(gs_stack)].at = "update",
                                    ![Len(gs_stack)].failed = TRUE]
    /\ UNCHANGED <<gs_public, gs_tabs, gs_written, gs_val, gs_ret, gs_raised, gs_returns>>
    /\ UNCHANGED otherThanGs

\* pd_to_sheet: values().update(...).execute(), then the function ends
GsUpdateValues ==
    /\ At("pd_to_sheet", "update")
    /\ Top.tab \in gs_tabs
    /\ gs_written' = gs_written \cup {Top.tab}
    /\ gs_log' = Logged("update", "ok")
    /\ Return_(NoneValue)
    /\ UNCHANGED <<gs_public, gs_tabs, gs_raised, gs_errors, gs_logged>>
    /\ UNCHANGED otherThanGs

\* append_row: values().append(...).execute(), then the function ends
GsAppendRow ==
    /\ At("append_row", "start")
    /\ Top.tab \in gs_tabs
    /\ gs_written' = gs_written \cup {Top.tab}
    /\ Return_(NoneValue)
    /\ UNCHANGED <<gs_public, gs_tabs, gs_raised, gs_errors, gs_logged>>
    /\ UNCHANGED gs_log
    /\ UNCHANGED otherThanGs

\* get_tab_id: sheet.get(...).execute() and the search for the tab
GsGetTabId ==
    /\ At("get_tab_id", "start")
    /\ Return_(IF Top.tab \in gs_tabs THEN TabId(Top.tab) ELSE NoneValue)
    /\ UNCHANGED <<gs_public, gs_tabs, gs_written, gs_raised, gs_errors, gs_logged>>
    /\ UNCHANGED gs_log
    /\ UNCHANGED otherThanGs

\* delete_tab: spreadsheet = sheet.get(...).execute()
GsDeleteTabGet ==
    /\ At("delete_tab", "start")
    /\ Goto("lookup")
    /\ UNCHANGED <<gs_public, gs_tabs, gs_written, gs_val, gs_ret, gs_raised,
                   gs_errors, gs_logged, gs_returns>>
    /\ UNCHANGED gs_log
    /\ UNCHANGED otherThanGs

\* delete_tab: tab_id = get_tab_id(sheet_id, creds, tab_name)
GsDeleteTabLookup ==
    /\ At("delete_tab", "lookup")
    /\ Call("get_tab_id", Top.tab, "check")
    /\ UNCHANGED <<gs_public, gs_tabs, gs_written, gs_val, gs_ret, gs_raised,
                   gs_errors, gs_logged, gs_returns>>
    /\ UNCHANGED gs_log
    /\ UNCHANGED otherThanGs

\* delete_tab: if tab_id is None: return
GsDeleteTabSkip ==
    /\ At("delete_tab", "check")
    /\ gs_val = NoneValue
    /\ Return_(NoneValue)
    /\ UNCHANGED <<gs_public, gs_tabs, gs_written, gs_raised, gs_errors, gs_logged>>
    /\ UNCHANGED gs_log
    /\ UNCHANGED otherThanGs

\* delete_tab: the tab was found, the delete request is built
GsDeleteTabFound ==
    /\ At("delete_tab", "check")
    /\ gs_val # NoneValue
    /\ Goto("delete")
    /\ UNCHANGED <<gs_public, gs_tabs, gs_written, gs_val, gs_ret, gs_raised,
                   gs_errors, gs_logged, gs_returns>>
    /\ UNCHANGED gs_log
    /\ UNCHANGED otherThanGs

\* delete_tab: sheet.batchUpdate(... deleteSheet ...).execute(), then the function ends
GsDeleteSheet ==
    /\ At("delete_tab", "delete")
    /\ gs_tabs' = gs_tabs \ {Top.tab}
    /\ Return_(NoneValue)
    /\ UNCHANGED <<gs_public, gs_written, gs_raised, gs_errors, gs_logged>>
    /\ UNCHANGED gs_log
    /\ UNCHANGED otherThanGs

\* apply_formatting: sheet.batchUpdate(...).execute(), then the function ends
GsApplyFormatting ==
    /\ At("apply_formatting", "start")
    /\ Return_(NoneValue)
    /\ UNCHANGED <<gs_public, gs_tabs, gs_written, gs_raised, gs_errors, gs_logged>>
    /\ UNCHANGED gs_log
    /\ UNCHANGED otherThanGs

GsNext ==
    \/ GsRequestFails
    \/ GsCreateFile
    \/ GsMakePublic
    \/ GsCallCreateTab
    \/ GsCallDeleteDefault
    \/ GsReturnSheetId
    \/ GsCreateTabCallsPdToSheet
    \/ GsCreateTabReturns
    \/ GsAddSheet
    \/ GsAddSheetExists
    \/ GsUpdateValues
    \/ GsAppendRow
    \/ GsGetTabId
    \/ GsDeleteTabGet
    \/ GsDeleteTabLookup
    \/ GsDeleteTabSkip
    \/ GsDeleteTabFound
    \/ GsDeleteSheet
    \/ GsApplyFormatting

(***************************************************************************)
(* Claims about googlesheets.py, checked under SpecSheets.                 *)
(***************************************************************************)
\* C10: when a request inside create_spreadsheet, pd_to_sheet, append_row,
\* get_tab_id, delete_tab or apply_formatting fails with HttpError, that function
\* logs, returns None and does not raise, so that its caller goes on to its next
\* step.
C10_HttpErrorsSwallowed ==
    /\ gs_raised = "none"
    /\ gs_logged = gs_errors
    /\ (gs_stack = <<>> /\ gs_errors > 0) => \E r \in gs_returns : r.failed
    /\ \A r \in gs_returns :
          r.failed => /\ r.fn \in SheetFunctions
                      /\ r.value = NoneValue
                      /\ r.origin = r.fn
                      /\ r.origin_depth = r.depth
    /\ (gs_stack = <<>>) => gs_ret # Unset

\* C10 witness: a request of an inner pd_to_sheet failed, pd_to_sheet returned
\* None, and create_spreadsheet went on and returned the sheet id.
C10_Witness ==
    /\ gs_stack = <<>>
    /\ gs_ret = SheetId
    /\ \E r \in gs_returns : r.fn = "pd_to_sheet" /\ r.failed /\ r.value = NoneValue

\* C10 second witness: a request of the outermost call failed and it returned None.
C10_OutermostFails ==
    /\ gs_stack = <<>>
    /\ gs_ret = NoneValue
    /\ \E r \in gs_returns : r.depth = 1 /\ r.failed /\ r.fn = "append_row"

\* the requests pd_to_sheet has issued for the tab, in order
RequestsFor(tab) == SelectSeq(gs_log, LAMBDA r : r.tab = tab)

\* no pd_to_sheet call is in progress
PdToSheetOver == \A d \in 1..Len(gs_stack) : gs_stack[d].fn # "pd_to_sheet"

C18_OtherFailureNoWrite ==
    /\ gs_stack = <<>>
    /\ gs_log = <<[request |-> "addSheet", outcome |-> "error", tab |-> "data"]>>
    /\ gs_written = {}
    /\ gs_ret = NoneValue


\* the vendor name each wrapper puts before the model name
Vendor(bot) ==
    CASE bot = "perplexity" -> "Perplexity"
      [] bot = "openai" -> "OpenAI"
      [] bot = "gemini" -> "Google"

\* the model each wrapper asks for when none is given
DefaultModel(bot) ==
    CASE bot = "perplexity" -> "sonar-pro"
      [] bot = "openai" -> "gpt-4o"
      [] bot = "gemini" -> "gemini-2.5-flash"

\* the record has the four fields, the prompt as given and the vendor's name
\* before the model's
IsWrapperResult(r, bot, prompt, model) ==
    /\ DOMAIN r = {"timestamp", "model", "prompt", "response"}
    /\ r.prompt = prompt
    /\ r.model = Vendor(bot) \o " " \o model

\* C16: every wrapper of chatbots.py returns a record with exactly the fields
\* timestamp, model, prompt and response, whose prompt is the input prompt and
\* whose model is the vendor name followed by the requested model name; the
\* "ai client" of a successful result row is the model field of the response of
\* its own task's chatbot.
C16_WrapperRecord ==
    /\ \A prompt \in {"q1", "q2"}, model \in {"sonar", "gpt-4o-mini", "gemini-2.5-pro"} :
          /\ IsWrapperResult(PerplexityResult(prompt, model), "perplexity", prompt, model)
          /\ IsWrapperResult(OpenAIResult(prompt, model), "openai", prompt, model)
          /\ IsWrapperResult(GeminiResult(prompt, model), "gemini", prompt, model)
    /\ \A k \in Tasks :
          response[k] # NoResponse =>
              IsWrapperResult(response[k], BotOf(k), QuestionOf(k), DefaultModel(BotOf(k)))
    /\ \A k \in Tasks :
          (pc[k] = "done" /\ exc[k] = "none") =>
              /\ results[k]["ai client"] = response[k].model
              /\ results[k]["ai client"] = Vendor(BotOf(k)) \o " " \o DefaultModel(BotOf(k))
    /\ main_pc = "returned" =>
          \A k \in Tasks :
              exc[k] = "none" => ret[k]["ai client"] = response[k].model

\* C16 witness: the function has returned, two tasks of different chatbots
\* succeeded, and each row names the model of its own chatbot.
C16_Witness ==
    /\ main_pc = "returned"
    /\ \E k1, k2 \in Tasks :
          /\ BotOf(k1) = "perplexity" /\ BotOf(k2) = "openai"
          /\ exc[k1] = "none" /\ exc[k2] = "none"
          /\ ret[k1]["ai client"] = "Perplexity sonar-pro"
          /\ ret[k2]["ai client"] = "OpenAI gpt-4o"

\* C12: if a name of the chatbots list is no key of the chatbot function map, the
\* fan-out function raises ValueError before doing anything else: no save folder
\* is made, no chatbot request is issued, no file is written and the counter is
\* never touched.
C12_InvalidChatbotRaisesFirst ==
    (\E j \in 1..Len(chatbots) : chatbots[j] \notin CB_FUNCTIONS) =>
        /\ main_pc \in {"validate", "raised"}
        /\ ~folder
        /\ \A k \in Tasks : pc[k] = "queued" /\ response[k] = NoResponse /\ count[k] = NoCount
        /\ \A b \in DOMAIN locks : locks[b] = NoTask
        /\ files = {}
        /\ counter = 0 /\ counter_lock = NoTask
        /\ ret = <<>>

\* C12 witness: ValueError was raised for a list whose first name is known and
\* whose second is not.
C12_Witness ==
    /\ main_pc = "raised"
    /\ Len(chatbots) = 2
    /\ chatbots[1] \in CB_FUNCTIONS
    /\ chatbots[2] \notin CB_FUNCTIONS

(***************************************************************************)
(* generate_questions of newsquestions.py (the same code is in             *)
(* questions.py).  The content of a reply is a sequence of tokens: code    *)
(* fences, brackets, commas, string literals, numbers and prose.           *)
(***************************************************************************)
\* most questions in the list of a reply
MaxQuestions == 2

Tok(t, v) == [t |-> t, v |-> v]
\* the opening fence of a python code block, and a fence without a language
FencePython == Tok("fence", "python")
Fence == Tok("fence", "")
Open == Tok("punct", "[")
Close == Tok("punct", "]")
Comma == Tok("punct", ",")
Prose == Tok("prose", "Here are the questions:")
Number == Tok("num", "7")
StrTok(v) == Tok("str", v)

\* the headlines tried
GenHeadlines == {"Storm hits coast", "Markets fall"}
\* the questions a reply may list
ReplyQuestions == {"Who?", "Why?"}
\* the characters of a string literal, as the += of a list and a str adds them
Chars(v) ==
    CASE v = "Who?" -> <<"W", "h", "o", "?">>
      [] v = "Why?" -> <<"W", "h", "y", "?">>

RECURSIVE QuestionLists(_)
\* the lists of at most n questions
QuestionLists(n) ==
    IF n = 0 THEN {<<>>}
    ELSE LET shorter == QuestionLists(n - 1)
         IN shorter \cup {l \o <<q>> : l \in shorter, q \in ReplyQuestions}

RECURSIVE ListLiteral(_)
\* the tokens of the elements of a list literal
ListLiteral(l) ==
    IF l = <<>> THEN <<>>
    ELSE IF Len(l) = 1 THEN <<StrTok(l[1])>>
    ELSE <<StrTok(l[1]), Comma>> \o ListLiteral(Tail(l))

\* the contents of a reply tried: a list literal alone, in a python fence, in a
\* plain fence, after a sentence of prose, or cut off before its end; one
\* string literal; one number; prose alone
GenMessages ==
    UNION {{<<Open>> \o ListLiteral(l) \o <<Close>>,
            <<FencePython, Open>> \o ListLiteral(l) \o <<Close, Fence>>,
            <<Fence, Open>> \o ListLiteral(l) \o <<Close, Fence>>,
            <<Prose, Open>> \o ListLiteral(l) \o <<Close>>,
            <<Open>> \o ListLiteral(l)} : l \in QuestionLists(MaxQuestions)}
    \cup {<<StrTok(q)>> : q \in ReplyQuestions}
    \cup {<<Number>>, <<Prose>>}

\* what cb.ask_openai(prompt) may do: raise, or return a record whose response
\* has no choices key, no choice, a message without content, or a content
GenResponses ==
    {[kind |-> "raises"],
     [kind |-> "returns", response |-> [error |-> "bad request"]],
     [kind |-> "returns", response |-> [choices |-> <<>>]],
     [kind |-> "returns", response |-> [choices |-> <<[message |-> [content |-> [none |-> TRUE]]]>>]]}
    \cup {[kind |-> "returns",
           response |-> [choices |-> <<[message |-> [content |-> [text |-> m]]]>>]] : m \in GenMessages}

\* f"{basic_question} {headline}"
BasicQuestion(h) == "Tell me about this headline:" \o " " \o h

\* the result of a step of the try block: a value, or the exception it raised
Value(v) == [exc |-> "none", value |-> v]
Raises(e) == [exc |-> e, value |-> <<>>]

\* message = response["response"]["choices"][0]["message"]["content"]
Content(resp) ==
    IF "choices" \notin DOMAIN resp THEN Raises("KeyError")
    ELSE IF resp.choices = <<>> THEN Raises("IndexError")
    ELSE Value(resp.choices[1].message.content)

\* message.replace(old, ""): AttributeError when the content is None
Replace(content, old) ==
    IF "text" \notin DOMAIN content THEN Raises("AttributeError")
    ELSE Value([text |-> SelectSeq(content.text, LAMBDA tok : tok # old)])

RECURSIVE Elements(_)
\* the elements between the brackets of a list literal (a trailing comma is
\* allowed), or SyntaxError
Elements(toks) ==
    IF toks = <<>> THEN Value(<<>>)
    ELSE IF toks[1].t # "str" THEN Raises("SyntaxError")
    ELSE IF Len(toks) = 1 THEN Value(<<toks[1].v>>)
    ELSE IF toks[2] # Comma THEN Raises("SyntaxError")
    ELSE LET rest == Elements(SubSeq(toks, 3, Len(toks)))
         IN IF rest.exc # "none" THEN rest ELSE Value(<<toks[1].v>> \o rest.value)

\* ast.literal_eval(message): a list, a str or an int, or SyntaxError
literal_eval(toks) ==
    IF Len(toks) = 1 /\ toks[1].t = "str" THEN Value([type |-> "str", items |-> Chars(toks[1].v)])
    ELSE IF Len(toks) = 1 /\ toks[1].t = "num" THEN Value([type |-> "int", items |-> <<>>])
    ELSE IF Len(toks) >= 2 /\ toks[1] = Open /\ toks[Len(toks)] = Close
         THEN LET inner == Elements(SubSeq(toks, 2, Len(toks) - 1))
              IN IF inner.exc # "none" THEN inner
                 ELSE Value([type |-> "list", items |-> inner.value])
    ELSE Raises("SyntaxError")

\* question_list += list_representation: the items of a list, the characters
\* of a str, TypeError for an int
Extend(list, rep) ==
    IF rep.type = "int" THEN Raises("TypeError") ELSE Value(list \o rep.items)

\* the body of the try block, from the reply to the extended question_list
TryBody(list, resp) ==
    LET message == Content(resp) IN
    IF message.exc # "none" THEN message ELSE
    LET nopython == Replace(message.value, FencePython) IN
    IF nopython.exc # "none" THEN nopython ELSE
    LET nofence == Replace(nopython.value, Fence) IN
    IF nofence.exc # "none" THEN nofence ELSE
    LET list_representation == literal_eval(nofence.value.text) IN
    IF list_representation.exc # "none" THEN list_representation
    ELSE Extend(list, list_representation.value)

\* except SyntaxError as err
GenCatchesOnlySyntaxError(e) == e = "SyntaxError"

\* except Exception as err
GenCatches(e) == e \in {"KeyError", "IndexError", "AttributeError", "SyntaxError", "TypeError"}

GenInit ==
    /\ gen_pc = "called"
    /\ headline \in GenHeadlines
    /\ use_ai_questions \in BOOLEAN
    /\ gen_response \in GenResponses
    /\ llm_calls = 0
    /\ question_list = <<>>

\* use_ai_questions is false: the basic question alone is returned
GenBasicOnly ==
    /\ gen_pc = "called"
    /\ ~use_ai_questions
    /\ question_list' = <<BasicQuestion(headline)>>
    /\ gen_pc' = "returned"
    /\ UNCHANGED <<headline, use_ai_questions, gen_response, llm_calls>>
    /\ UNCHANGED otherThanGen

\* cb.ask_openai(prompt) raises: the call is outside the try block
GenAskRaises ==
    /\ gen_pc = "called"
    /\ use_ai_questions
    /\ gen_response.kind = "raises"
    /\ question_list' = <<BasicQuestion(headline)>>
    /\ llm_calls' = llm_calls + 1
    /\ gen_pc' = "raised"
    /\ UNCHANGED <<headline, use_ai_questions, gen_response>>
    /\ UNCHANGED otherThanGen

\* cb.ask_openai(prompt) returns and the try block runs to its end
GenReplyUsed ==
    /\ gen_pc = "called"
    /\ use_ai_questions
    /\ gen_response.kind = "returns"
    /\ LET r == TryBody(<<BasicQuestion(headline)>>, gen_response.response)
       IN /\ r.exc = "none"
          /\ question_list' = r.value
    /\ llm_calls' = llm_calls + 1
    /\ gen_pc' = "returned"
    /\ UNCHANGED <<headline, use_ai_questions, gen_response>>
    /\ UNCHANGED otherThanGen

\* cb.ask_openai(prompt) returns and the try block raises: the handler prints
\* and the basic question alone is returned
GenReplyUnusable ==
    /\ gen_pc = "called"
    /\ use_ai_questions
    /\ gen_response.kind = "returns"
    /\ LET r == TryBody(<<BasicQuestion(headline)>>, gen_response.response)
       IN /\ r.exc # "none"
          /\ gen_pc' = IF GenCatches(r.exc) THEN "returned" ELSE "raised"
    /\ question_list' = <<BasicQuestion(headline)>>
    /\ llm_calls' = llm_calls + 1
    /\ UNCHANGED <<headline, use_ai_questions, gen_response>>
    /\ UNCHANGED otherThanGen

GenNext ==
    \/ GenBasicOnly
    \/ GenAskRaises
    \/ GenReplyUsed
    \/ GenReplyUnusable

(***************************************************************************)
(* Claims about generate_questions, checked under SpecGen.                 *)
(***************************************************************************)
\* the reply cannot be extracted or evaluated
ReplyFails ==
    /\ gen_response.kind = "returns"
    /\ TryBody(<<>>, gen_response.response).exc # "none"

\* C11 (as claimed): generate_questions always returns a list whose first
\* element is "Tell me about this headline: {headline}"; without
\* use_ai_questions it returns that one question and makes no LLM call; with
\* use_ai_questions it makes exactly one LLM call, and if extracting or
\* evaluating the reply fails it returns the basic question alone without raising.
C11_GenerateQuestions_Original ==
    gen_pc # "called" =>
        /\ gen_pc = "returned"
        /\ question_list # <<>> /\ question_list[1] = BasicQuestion(headline)
        /\ ~use_ai_questions => (llm_calls = 0 /\ Len(question_list) = 1)
        /\ use_ai_questions => llm_calls = 1
        /\ (use_ai_questions /\ ReplyFails) => Len(question_list) = 1

\* C11 (amended): whenever generate_questions returns, the first element of the
\* list is "Tell me about this headline: {headline}"; without use_ai_questions
\* it returns that one question and makes no LLM call; with use_ai_questions it
\* makes exactly one LLM call; if that call raises, the exception propagates; if
\* the call returns and extracting or evaluating the reply fails, it returns the
\* basic question alone without raising.
C11_GenerateQuestions ==
    /\ gen_pc = "returned" =>
          /\ question_list # <<>> /\ question_list[1] = BasicQuestion(headline)
          /\ ~use_ai_questions => (llm_calls = 0 /\ Len(question_list) = 1)
          /\ use_ai_questions => llm_calls = 1
    /\ gen_pc = "raised" =>
          (use_ai_questions /\ llm_calls = 1 /\ gen_response.kind = "raises")
    /\ (gen_pc # "called" /\ use_ai_questions /\ ReplyFails) =>
          (gen_pc = "returned" /\ Len(question_list) = 1)
    /\ (gen_pc # "called" /\ ~use_ai_questions) => gen_pc = "returned"

\* C11 witness: with use_ai_questions, a reply whose content is no literal was
\* received and the basic question alone was returned.
C11_Witness ==
    /\ gen_pc = "returned"
    /\ use_ai_questions
    /\ ReplyFails
    /\ llm_calls = 1
    /\ question_list = <<BasicQuestion(headline)>>

\* with use_ai_questions, the questions of a fenced reply follow the basic one
C11_FencedReplyUsed ==
    /\ gen_pc = "returned"
    /\ gen_response.kind = "returns"
    /\ "choices" \in DOMAIN gen_response.response
    /\ gen_response.response.choices # <<>>
    /\ "text" \in DOMAIN gen_response.response.choices[1].message.content
    /\ FencePython \in {gen_response.response.choices[1].message.content.text[i] :
                          i \in DOMAIN gen_response.response.choices[1].message.content.text}
    /\ question_list = <<BasicQuestion(headline), "Who?", "Why?">>


(***************************************************************************)
(* authenticate_gsheets of googlesheets.py.  Credentials are the record of *)
(* what the function reads of them: whether there is an access token,     *)
(* whether it is expired, whether there is a refresh token.                *)
(***************************************************************************)
NoFile == [none |-> TRUE]
Malformed == [malformed |-> TRUE]
NoCreds == [none |-> TRUE]

\* the credentials a token file may hold; id tells the records apart
StoredCredentials ==
    [id : {"stored"}, token : BOOLEAN, expired : BOOLEAN, refresh_token : BOOLEAN]

\* creds.refresh(Request()) fetches a new access token
Refreshed(c) == [c EXCEPT !.id = "refreshed", !.token = TRUE, !.expired = FALSE]

\* the credentials flow.run_local_server(port = 0) returns
LoggedIn == [id |-> "login", token |-> TRUE, expired |-> FALSE, refresh_token |-> TRUE]

\* creds.valid of google.oauth2.credentials.Credentials
Valid(c) == c.token /\ ~c.expired

\* not creds or not creds.valid
NeedsLogin(c) == IF c = NoCreds THEN TRUE ELSE ~Valid(c)

\* creds and creds.expired
ShouldRefreshAnyExpired(c) == c # NoCreds /\ c.expired

\* creds and creds.expired and creds.refresh_token
ShouldRefresh(c) == c # NoCreds /\ c.expired /\ c.refresh_token

AuthInit ==
    /\ auth_pc = "start"
    /\ token_file \in {NoFile, Malformed} \cup StoredCredentials
    /\ secrets_file \in BOOLEAN
    /\ creds = NoCreds
    /\ loaded = NoCreds
    /\ auth_steps = <<>>
    /\ auth_faults = 0

\* os.path.exists(token_path) is false: creds stays None
AuthNoTokenFile ==
    /\ auth_pc = "start"
    /\ token_file = NoFile
    /\ auth_pc' = "check"
    /\ UNCHANGED <<token_file, secrets_file, creds, loaded, auth_steps, auth_faults>>
    /\ UNCHANGED otherThanAuth

\* creds = Credentials.from_authorized_user_file(token_path, SCOPES); a file
\* that holds no credentials makes it raise
AuthLoad ==
    /\ auth_pc = "start"
    /\ token_file # NoFile
    /\ auth_steps' = Append(auth_steps, "load")
    /\ IF token_file = Malformed
       THEN auth_pc' = "raised" /\ creds' = creds /\ auth_faults' = auth_faults + 1
       ELSE auth_pc' = "check" /\ creds' = token_file /\ auth_faults' = auth_faults
    /\ loaded' = creds'
    /\ UNCHANGED <<token_file, secrets_file>>
    /\ UNCHANGED otherThanAuth

\* the credentials are valid: return creds
AuthReturnValid ==
    /\ auth_pc = "check"
    /\ ~NeedsLogin(creds)
    /\ auth_pc' = "returned"
    /\ UNCHANGED <<token_file, secrets_file, creds, loaded, auth_steps, auth_faults>>
    /\ UNCHANGED otherThanAuth

\* creds.refresh(Request()): the credentials are refreshed, or it raises
AuthRefresh ==
    /\ auth_pc = "check"
    /\ NeedsLogin(creds)
    /\ ShouldRefresh(creds)
    /\ auth_steps' = Append(auth_steps, "refresh")
    /\ \/ auth_pc' = "save" /\ creds' = Refreshed(creds) /\ auth_faults' = auth_faults
       \/ auth_pc' = "raised" /\ creds' = creds /\ auth_faults' = auth_faults + 1
    /\ UNCHANGED <<token_file, secrets_file, loaded>>
    /\ UNCHANGED otherThanAuth

\* InstalledAppFlow.from_client_secrets_file(credentials_path, SCOPES) and
\* flow.run_local_server(port = 0): new credentials, or one of them raises
AuthLogin ==
    /\ auth_pc = "check"
    /\ NeedsLogin(creds)
    /\ ~ShouldRefresh(creds)
    /\ auth_steps' = Append(auth_steps, "login")
    /\ \/ secrets_file /\ auth_pc' = "save" /\ creds' = LoggedIn /\ auth_faults' = auth_faults
       \/ auth_pc' = "raised" /\ creds' = creds /\ auth_faults' = auth_faults + 1
    /\ UNCHANGED <<token_file, secrets_file, loaded>>
    /\ UNCHANGED otherThanAuth

\* with open(token_path, "w") as token: the file is made or emptied, or open
\* raises
AuthOpenToken ==
    /\ auth_pc = "save"
    /\ \/ auth_pc' = "write" /\ token_file' = Malformed /\ auth_faults' = auth_faults
       \/ auth_pc' = "raised" /\ token_file' = token_file /\ auth_faults' = auth_faults + 1
    /\ UNCHANGED <<secrets_file, creds, loaded, auth_steps>>
    /\ UNCHANGED otherThanAuth

\* token.write(creds.to_json()) and the end of the with block, or the write
\* raises
AuthWriteToken ==
    /\ auth_pc = "write"
    /\ \/ /\ auth_pc' = "return"
          /\ token_file' = creds
          /\ auth_steps' = Append(auth_steps, "write")
          /\ auth_faults' = auth_faults
       \/ /\ auth_pc' = "raised"
          /\ UNCHANGED <<token_file, auth_steps>>
          /\ auth_faults' = auth_faults + 1
    /\ UNCHANGED <<secrets_file, creds, loaded>>
    /\ UNCHANGED otherThanAuth

\* return creds, after the token file was written
AuthReturn ==
    /\ auth_pc = "return"
    /\ auth_pc' = "returned"
    /\ UNCHANGED <<token_file, secrets_file, creds, loaded, auth_steps, auth_faults>>
    /\ UNCHANGED otherThanAuth

AuthNext ==
    \/ AuthNoTokenFile
    \/ AuthLoad
    \/ AuthReturnValid
    \/ AuthRefresh
    \/ AuthLogin
    \/ AuthOpenToken
    \/ AuthWriteToken
    \/ AuthReturn

(***************************************************************************)
(* Claims about authenticate_gsheets, checked under SpecAuth.              *)
(***************************************************************************)
\* the steps taken so far, as a set
AuthDone == {auth_steps[i] : i \in DOMAIN auth_steps}

\* the loaded credentials call for a refresh: expired, with a refresh token
LoadedRefreshable == loaded # NoCreds /\ ~Valid(loaded) /\ loaded.expired /\ loaded.refresh_token

\* C14: authenticate_gsheets loads credentials from the token file when it
\* exists; if the loaded credentials are valid it returns them without
\* refreshing, without the login flow and without writing the token file; if they
\* are expired with a refresh token it refreshes them; otherwise (no token file,
\* or invalid without a refresh token) it runs the login flow; and whenever
\* credentials were refreshed or newly obtained the token file is written before
\* the return.
C14_Authenticate ==
    /\ auth_pc \in {"check", "save"} =>
          /\ loaded = IF token_file = NoFile THEN NoCreds ELSE token_file
          /\ "load" \in AuthDone <=> token_file # NoFile
    /\ "refresh" \in AuthDone => (LoadedRefreshable /\ "login" \notin AuthDone)
    /\ "login" \in AuthDone =>
          (loaded = NoCreds \/ (~Valid(loaded) /\ ~LoadedRefreshable))
    /\ auth_pc = "returned" =>
          IF loaded # NoCreds /\ Valid(loaded)
          THEN /\ auth_steps = <<"load">>
               /\ creds = loaded
               /\ token_file = loaded
          ELSE IF LoadedRefreshable
          THEN /\ auth_steps = <<"load", "refresh", "write">>
               /\ creds = Refreshed(loaded)
               /\ token_file = creds
          ELSE /\ auth_steps = IF loaded = NoCreds THEN <<"login", "write">>
                               ELSE <<"load", "login", "write">>
               /\ creds = LoggedIn
               /\ token_file = creds

\* C14 witness: expired credentials with a refresh token were loaded and
\* refreshed, and the token file holds the refreshed credentials at the return.
C14_Witness ==
    /\ auth_pc = "returned"
    /\ auth_steps = <<"load", "refresh", "write">>
    /\ token_file = creds
    /\ creds.id = "refreshed"

\* valid credentials were returned as loaded and nothing was written
C14_ValidReturned ==
    /\ auth_pc = "returned"
    /\ auth_steps = <<"load">>
    /\ token_file = creds
    /\ creds.id = "stored"

\* without a token file the login flow ran and its credentials were written
C14_LoginWithoutTokenFile ==
    /\ auth_pc = "returned"
    /\ auth_steps = <<"login", "write">>
    /\ token_file = LoggedIn

(***************************************************************************)
(* The browser scrapers ask_chatgpt and ask_perplexity of scraper.py.      *)
(***************************************************************************)
\* largest numtries argument tried
MaxNumTries == 3

\* the calls on the driver and its elements in the try block that may raise:
\* get, save_screenshot, wait.until, click, send_keys, send_keys, wait.until,
\* click, and for ask_chatgpt wait.until, click, wait.until, wait.until,
\* get_attribute, for ask_perplexity current_url
ScrSteps(fn) == IF fn = "ask_chatgpt" THEN 13 ELSE 9

\* the value of the share link, or of driver.current_url
ShareUrl(fn) == IF fn = "ask_chatgpt" THEN "https://chatgpt.com/share/1"
                ELSE "https://www.perplexity.ai/search/1"

MaxTriesExceeded == "Max tries exceeded."

ScrInit ==
    /\ scr_fn \in {"ask_chatgpt", "ask_perplexity"}
    /\ scr_pc = "loop"
    /\ numtries \in -1..MaxNumTries
    /\ tries_attempted = 0
    /\ scr_step = 0
    /\ scr_attempts = 0
    /\ scr_failures = 0
    /\ scr_ret = Unset

\* while tries_attempted < numtries
ScrLoop == tries_attempted < numtries

\* the loop condition holds: the try block is entered
ScrEnterTry ==
    /\ scr_pc = "loop"
    /\ ScrLoop
    /\ scr_pc' = "try"
    /\ scr_step' = 1
    /\ scr_attempts' = scr_attempts + 1
    /\ UNCHANGED <<scr_fn, numtries, tries_attempted, scr_failures, scr_ret>>
    /\ UNCHANGED otherThanScr

\* a call of the try block returns and the next one follows
ScrStepOk ==
    /\ scr_pc = "try"
    /\ scr_step < ScrSteps(scr_fn)
    /\ scr_step' = scr_step + 1
    /\ UNCHANGED <<scr_fn, scr_pc, numtries, tries_attempted, scr_attempts,
                   scr_failures, scr_ret>>
    /\ UNCHANGED otherThanScr

\* a call of the try block raises: except Exception is entered and prints
ScrStepRaises ==
    /\ scr_pc = "try"
    /\ scr_pc' = "except"
    /\ scr_failures' = scr_failures + 1
    /\ UNCHANGED <<scr_fn, numtries, tries_attempted, scr_step, scr_attempts, scr_ret>>
    /\ UNCHANGED otherThanScr

\* the last call of the try block returns: return share_url, or
\* return driver.current_url
ScrReturnUrl ==
    /\ scr_pc = "try"
    /\ scr_step = ScrSteps(scr_fn)
    /\ scr_pc' = "returned"
    /\ scr_ret' = ShareUrl(scr_fn)
    /\ UNCHANGED <<scr_fn, numtries, tries_attempted, scr_step, scr_attempts, scr_failures>>
    /\ UNCHANGED otherThanScr

\* the handler: driver.save_screenshot("headless_debug_error.png") returns and
\* tries_attempted += 1
ScrHandlerDone ==
    /\ scr_pc = "except"
    /\ tries_attempted' = tries_attempted + 1
    /\ scr_pc' = "loop"
    /\ UNCHANGED <<scr_fn, numtries, scr_step, scr_attempts, scr_failures, scr_ret>>
    /\ UNCHANGED otherThanScr

\* the handler: driver.save_screenshot("headless_debug_error.png") raises, and
\* nothing catches it
ScrHandlerRaises ==
    /\ scr_pc = "except"
    /\ scr_pc' = "raised"
    /\ UNCHANGED <<scr_fn, numtries, tries_attempted, scr_step, scr_attempts,
                   scr_failures, scr_ret>>
    /\ UNCHANGED otherThanScr

\* the loop condition fails: return "Max tries exceeded."
ScrGiveUp ==
    /\ scr_pc = "loop"
    /\ ~ScrLoop
    /\ scr_pc' = "returned"
    /\ scr_ret' = MaxTriesExceeded
    /\ UNCHANGED <<scr_fn, numtries, tries_attempted, scr_step, scr_attempts, scr_failures>>
    /\ UNCHANGED otherThanScr

ScrNext ==
    \/ ScrEnterTry
    \/ ScrStepOk
    \/ ScrStepRaises
    \/ ScrReturnUrl
    \/ ScrHandlerDone
    \/ ScrHandlerRaises
    \/ ScrGiveUp

(***************************************************************************)
(* Claims about the scrapers, checked under SpecScr.                       *)
(***************************************************************************)
\* the attempts are bounded by numtries, the first attempt without an exception
\* ends the call with its URL, and "Max tries exceeded." is returned only after
\* numtries failed attempts
ScrAttemptsBounded ==
    /\ scr_attempts <= (IF numtries > 0 THEN numtries ELSE 0)
    /\ scr_failures <= scr_attempts
    /\ scr_attempts <= scr_failures + 1
    /\ (scr_pc = "returned" /\ scr_ret # MaxTriesExceeded) =>
          /\ scr_ret = ShareUrl(scr_fn)
          /\ scr_attempts = scr_failures + 1
    /\ (scr_pc = "returned" /\ scr_ret = MaxTriesExceeded) =>
          /\ scr_attempts = scr_failures
          /\ scr_attempts = (IF numtries > 0 THEN numtries ELSE 0)

\* C15: ask_chatgpt and ask_perplexity attempt the page interaction at most
\* numtries times; they return the share URL of the first attempt that completes
\* without an exception and make no further attempt; if all numtries attempts
\* raise they return "Max tries exceeded."; they never propagate an exception
\* raised inside an attempt, and with numtries <= 0 they make no attempt.
C15_ScraperRetries ==
    /\ ScrAttemptsBounded
    /\ scr_pc # "raised"
    /\ (scr_failures = numtries /\ numtries > 0) => scr_pc \in {"except", "loop", "returned"}

\* an attempt raised, and the screenshot of the handler raised as well
C15_HandlerRaised ==
    /\ scr_pc = "raised"
    /\ scr_failures >= 1
    /\ scr_ret = Unset

\* after two attempts that raised, the third returned its URL
C15_ThirdAttemptReturns ==
    /\ scr_pc = "returned"
    /\ scr_failures = 2
    /\ scr_attempts = 3
    /\ scr_ret = ShareUrl(scr_fn)

(***************************************************************************)
(* The loaders with an item limit: fetch_articles of googlenews.py,        *)
(* load_questions of longtermquestions.py, load_claims of                  *)
(* factcheckquestions.py.                                                  *)
(***************************************************************************)
\* most entries of a feed, questions of a sheet, documents of a query
MaxItems == 3

\* question_limit = None, claim_limit = None
NoLimit == [none |-> TRUE]

\* the limits tried: None, 0, a negative one, and up to one more than MaxItems
Limits == {NoLimit} \cup {[n |-> i] : i \in -1..(MaxItems + 1)}

\* if article_limit, if question_limit, if claim_limit
Truthy(limit) == IF limit = NoLimit THEN FALSE ELSE limit.n # 0

\* rows[:n]
Slice(rows, n) ==
    IF n >= 0 THEN SubSeq(rows, 1, IF n < Len(rows) THEN n ELSE Len(rows))
    ELSE SubSeq(rows, 1, IF Len(rows) + n > 0 THEN Len(rows) + n ELSE 0)

\* the list, cut off if a limit is set
Limited(rows, limit) == IF Truthy(limit) THEN Slice(rows, limit.n) ELSE rows

\* the titles of the entries of a feed
FeedTitles == {<<"w">>, <<"w">> \o Hyphen \o <<AbcNews>>}

\* the feeds of n entries; the link tells the entries apart
Feeds(n) ==
    {[i \in 1..n |-> [title |-> t[i], link |-> "https://news.google.com/" \o ToString(i)]] :
        t \in [1..n -> FeedTitles]}

\* the documents of n claims; langid.classify(claim) gives lang
Documents(n) ==
    {[i \in 1..n |-> [claimReviewed |-> "claim " \o ToString(i), lang |-> l[i]]] :
        l \in [1..n -> {"en", "fr"}]}

\* the rows of fetch_articles before the titles are split
ArticleRow(entry) == [source |-> "Google News", title |-> entry.title, url |-> entry.link]

\* df.insert(2, 'news-outlet', None) and split_titles(df)
Separated(row) ==
    [f \in {"source", "title", "news-outlet", "url"} |->
        IF f = "title" THEN split_single_title(row.title)[1]
        ELSE IF f = "news-outlet" THEN split_single_title(row.title)[2]
        ELSE row[f]]

\* a dataframe made of no row has no column: df.insert(2, ...) raises
\* IndexError, and df['title'] would raise KeyError
InsertRaises(rows) == rows = <<>>

LimInit ==
    /\ lim_pc = "called"
    /\ lim_limit \in Limits
    /\ lim_out = <<>>
    /\ \/ /\ lim_fn = "fetch_articles"
          /\ \E n \in 0..MaxItems : lim_items \in Feeds(n)
          /\ separate_titles \in BOOLEAN
          /\ lim_limit # NoLimit
       \/ /\ lim_fn = "load_questions"
          /\ \E n \in 0..MaxItems : lim_items = [i \in 1..n |-> "question " \o ToString(i)]
          /\ separate_titles = FALSE
       \/ /\ lim_fn = "load_claims"
          /\ \E n \in 0..MaxItems : lim_items \in Documents(n)
          /\ separate_titles = FALSE

\* fetch_articles: the rows of the entries, cut off, then the titles split
FetchArticles ==
    /\ lim_pc = "called"
    /\ lim_fn = "fetch_articles"
    /\ LET rows == [i \in 1..Len(lim_items) |-> ArticleRow(lim_items[i])]
           frame == Limited(rows, lim_limit)
       IN IF ~separate_titles
          THEN lim_pc' = "returned" /\ lim_out' = frame
          ELSE IF InsertRaises(frame)
          THEN lim_pc' = "raised" /\ lim_out' = lim_out
          ELSE /\ lim_pc' = "returned"
               /\ lim_out' = [i \in 1..Len(frame) |-> Separated(frame[i])]
    /\ UNCHANGED <<lim_fn, lim_items, lim_limit, separate_titles>>
    /\ UNCHANGED otherThanLim

\* load_questions: the "question" column of the sheet, cut off
LoadQuestions ==
    /\ lim_pc = "called"
    /\ lim_fn = "load_questions"
    /\ lim_out' = Limited(lim_items, lim_limit)
    /\ lim_pc' = "returned"
    /\ UNCHANGED <<lim_fn, lim_items, lim_limit, separate_titles>>
    /\ UNCHANGED otherThanLim

\* the documents whose claim is classified as lang
FilterLang(docs, lang) == SelectSeq(docs, LAMBDA doc : doc.lang = lang)

\* load_claims with lang = "en": the documents in English, cut off, then a row
\* for each
LoadClaims ==
    /\ lim_pc = "called"
    /\ lim_fn = "load_claims"
    /\ LET filtered_results == Limited(FilterLang(lim_items, "en"), lim_limit)
       IN lim_out' = [i \in 1..Len(filtered_results) |->
                        [claim |-> filtered_results[i].claimReviewed, lang |-> "en"]]
    /\ lim_pc' = "returned"
    /\ UNCHANGED <<lim_fn, lim_items, lim_limit, separate_titles>>
    /\ UNCHANGED otherThanLim

LimNext ==
    \/ FetchArticles
    \/ LoadQuestions
    \/ LoadClaims

(***************************************************************************)
(* Claims about the item limits, checked under SpecLim.                    *)
(***************************************************************************)
\* the smaller of two numbers
Min(a, b) == IF a < b THEN a ELSE b

\* the first min(n, Len(s)) items of s if n > 0, all items if there is no limit
\* or the limit is 0
Prefix(s, limit) ==
    IF limit # NoLimit /\ limit.n > 0 THEN SubSeq(s, 1, Min(limit.n, Len(s))) ELSE s

\* the limit is one the claim speaks of: none, 0 or positive
LimitCovered == lim_limit = NoLimit \/ lim_limit.n >= 0

\* what the loaders return whenever they return: the prefix of the entries, of
\* the questions, and of the claims left by the language filter
LimitsWhenReturned ==
    (lim_pc = "returned" /\ LimitCovered) =>
        CASE lim_fn = "fetch_articles" ->
               /\ Len(lim_out) = Len(Prefix(lim_items, lim_limit))
               /\ \A i \in 1..Len(lim_out) : lim_out[i].url = lim_items[i].link
          [] lim_fn = "load_questions" -> lim_out = Prefix(lim_items, lim_limit)
          [] lim_fn = "load_claims" ->
               LET english == FilterLang(lim_items, "en")
               IN /\ Len(lim_out) = Len(Prefix(english, lim_limit))
                  /\ \A i \in 1..Len(lim_out) : lim_out[i].claim = english[i].claimReviewed

\* C17: item limits truncate to a prefix: fetch_articles with article_limit =
\* n > 0 returns the first min(n, feed length) entries in feed order and with
\* article_limit = 0 all entries; load_questions with question_limit = n > 0
\* returns the first min(n, total) questions in sheet order and without a limit
\* all; load_claims applies claim_limit after the language filter.
C17_ItemLimits ==
    /\ LimitsWhenReturned
    /\ (lim_pc # "called" /\ LimitCovered) => lim_pc = "returned"

\* fetch_articles raised on a feed without entries
C17_EmptyFeedRaises ==
    /\ lim_pc = "raised"
    /\ lim_fn = "fetch_articles"
    /\ lim_items = <<>>
    /\ separate_titles

\* load_claims cut the English claims off although more documents came first
C17_LimitAfterFilter ==
    /\ lim_pc = "returned"
    /\ lim_fn = "load_claims"
    /\ Len(lim_items) = 3
    /\ lim_items[1].lang = "fr"
    /\ lim_limit = [n |-> 1]
    /\ Len(lim_out) = 1
    /\ lim_out[1].claim = lim_items[2].claimReviewed

(***************************************************************************)
(* The sequential ask_questions of questions.py.                           *)
(***************************************************************************)
\* most rows of the dataframe
MaxRows == 2

\* most times "-new" is found on the paths that exist before the call
MaxNew == 2

RECURSIVE Renamed(_)
\* "out" with "-new" appended n times
Renamed(n) == IF n = 0 THEN "out" ELSE Renamed(n - 1) \o "-new"

\* f"AMT-{timestamp}-{counter:05d}.json"
SeqFileName(c) == "AMT-" \o "2025-07-30" \o "-" \o Pad5(c) \o ".json"

\* os.path.join(save_folder, name)
PathJoin(dir, name) == dir \o "/" \o name

\* the response file an earlier run left in a folder
EarlierFile(dir) == [folder |-> dir, name |-> SeqFileName(0), content |-> "earlier run"]

\* the chatbots arguments tried
SeqChatbotLists ==
    {<<>>, <<"openai">>, <<"perplexity", "gemini">>, <<"openai", "bard">>}

\* os.path.exists(save_folder), as it would be if only the path passed in
\* were looked at
PathExistsFirstOnly(path) == path = "out" /\ path \in dirs_before

\* os.path.exists(save_folder): the call itself makes no folder before the loop ends
PathExists(path) == path \in dirs_before

SeqInit ==
    /\ seq_pc = "check"
    /\ \E n \in 0..MaxRows : seq_df = InputRows("news", n)
    /\ seq_chatbots \in SeqChatbotLists
    /\ save_folder = "out"
    /\ dirs_before \in SUBSET {Renamed(n) : n \in 0..MaxNew}
    /\ disk = {EarlierFile(dir) : dir \in dirs_before}
    /\ seq_counter = 0
    /\ seq_pair = 0
    /\ result_rows = <<>>
    /\ seq_exc = "none"

\* a chatbot name is not in cb_functions: ValueError
SeqInvalidChatbot ==
    /\ seq_pc = "check"
    /\ \E j \in 1..Len(seq_chatbots) : seq_chatbots[j] \notin CB_FUNCTIONS
    /\ seq_pc' = "raised"
    /\ seq_exc' = "ValueError"
    /\ UNCHANGED <<seq_df, seq_chatbots, save_folder, dirs_before, disk, seq_counter,
                   seq_pair, result_rows>>
    /\ UNCHANGED otherThanSeq

\* every chatbot name is in cb_functions
SeqChatbotsValid ==
    /\ seq_pc = "check"
    /\ \A j \in 1..Len(seq_chatbots) : seq_chatbots[j] \in CB_FUNCTIONS
    /\ seq_pc' = "folder"
    /\ UNCHANGED <<seq_df, seq_chatbots, save_folder, dirs_before, disk, seq_counter,
                   seq_pair, result_rows, seq_exc>>
    /\ UNCHANGED otherThanSeq

\* while os.path.exists(save_folder): save_folder += "-new"
SeqRename ==
    /\ seq_pc = "folder"
    /\ PathExists(save_folder)
    /\ save_folder' = save_folder \o "-new"
    /\ UNCHANGED <<seq_pc, seq_df, seq_chatbots, dirs_before, disk, seq_counter,
                   seq_pair, result_rows, seq_exc>>
    /\ UNCHANGED otherThanSeq

\* os.makedirs(save_folder, exist_ok=True); counter = 0; result_rows = []
SeqMakeDirs ==
    /\ seq_pc = "folder"
    /\ ~PathExists(save_folder)
    /\ seq_counter' = 0
    /\ result_rows' = <<>>
    /\ seq_pc' = "loop"
    /\ UNCHANGED <<seq_df, seq_chatbots, save_folder, dirs_before, disk, seq_pair, seq_exc>>
    /\ UNCHANGED otherThanSeq

\* the pairs of the two loops: rows outer, chatbots inner
SeqPairs == Len(seq_df) * Len(seq_chatbots)
SeqRowOf(k) == seq_df[((k - 1) \div Len(seq_chatbots)) + 1]
SeqBotOf(k) == seq_chatbots[((k - 1) % Len(seq_chatbots)) + 1]

\* row.to_dict() with 'ai client' and 'response path' set
SeqResultRow(row, client, path) ==
    [f \in DOMAIN row \cup {"ai client", "response path"} |->
        IF f = "ai client" THEN client
        ELSE IF f = "response path" THEN path
        ELSE row[f]]

\* open(out_path, "w") and json.dump(response, file)
Written(on_disk, dir, name, content) ==
    {f \in on_disk : ~(f.folder = dir /\ f.name = name)}
        \cup {[folder |-> dir, name |-> name, content |-> content]}

\* one turn of the inner loop: the chatbot answers, the answer is saved, the row
\* is appended and the counter goes up
SeqAsk ==
    /\ seq_pc = "loop"
    /\ seq_pair < SeqPairs
    /\ LET k == seq_pair + 1
           resp == ask_fn(SeqBotOf(k), SeqRowOf(k).question)
           name == SeqFileName(seq_counter)
       IN /\ disk' = Written(disk, save_folder, name, resp)
          /\ result_rows' = Append(result_rows,
                SeqResultRow(SeqRowOf(k), resp.model, PathJoin(save_folder, name)))
    /\ seq_counter' = seq_counter + 1
    /\ seq_pair' = seq_pair + 1
    /\ UNCHANGED <<seq_pc, seq_df, seq_chatbots, save_folder, dirs_before, seq_exc>>
    /\ UNCHANGED otherThanSeq

\* the chatbot wrapper raises: nothing in ask_questions catches it
SeqAskRaises ==
    /\ seq_pc = "loop"
    /\ seq_pair < SeqPairs
    /\ seq_pc' = "raised"
    /\ seq_exc' = "Exception"
    /\ UNCHANGED <<seq_df, seq_chatbots, save_folder, dirs_before, disk, seq_counter,
                   seq_pair, result_rows>>
    /\ UNCHANGED otherThanSeq

\* return pd.DataFrame(result_rows)
SeqReturn ==
    /\ seq_pc = "loop"
    /\ seq_pair = SeqPairs
    /\ seq_pc' = "returned"
    /\ UNCHANGED <<seq_df, seq_chatbots, save_folder, dirs_before, disk, seq_counter,
                   seq_pair, result_rows, seq_exc>>
    /\ UNCHANGED otherThanSeq

SeqNext ==
    \/ SeqInvalidChatbot
    \/ SeqChatbotsValid
    \/ SeqRename
    \/ SeqMakeDirs
    \/ SeqAsk
    \/ SeqAskRaises
    \/ SeqReturn

(***************************************************************************)
(* Claims about the sequential ask_questions, checked under SpecSeq.       *)
(***************************************************************************)
\* C19: the sequential ask_questions never writes into a folder that existed
\* before the call: it appends "-new" to save_folder until the path does not
\* exist, so no response file of an earlier run is overwritten; and the counter
\* in the file name for the k-th (question, chatbot) pair, questions outer and
\* chatbots inner, is k, counted from 0.
C19_FreshFolderAndCounter ==
    /\ \A dir \in dirs_before : EarlierFile(dir) \in disk
    /\ \A f \in disk : f.folder \in dirs_before => f = EarlierFile(f.folder)
    /\ seq_pc \in {"loop", "returned"} =>
          /\ save_folder \notin dirs_before
          /\ \E n \in 0..(MaxNew + 1) :
                /\ save_folder = Renamed(n)
                /\ \A m \in 0..(n - 1) : Renamed(m) \in dirs_before
    /\ \A k \in 1..Len(result_rows) :
          /\ result_rows[k]["response path"] = PathJoin(save_folder, SeqFileName(k - 1))
          /\ result_rows[k].question = SeqRowOf(k).question
          /\ [folder |-> save_folder, name |-> SeqFileName(k - 1),
              content |-> ask_fn(SeqBotOf(k), SeqRowOf(k).question)] \in disk
    /\ seq_pc = "returned" => Len(result_rows) = SeqPairs

\* C19 witness: "out" and "out-new" existed, and the four answers of two
\* questions and two chatbots were saved in "out-new-new" as files 0 to 3.
C19_Witness ==
    /\ seq_pc = "returned"
    /\ dirs_before = {"out", "out-new"}
    /\ save_folder = "out-new-new"
    /\ Len(result_rows) = 4
    /\ result_rows[4]["response path"] = "out-new-new/AMT-2025-07-30-00003.json"
    /\ result_rows[4]["ai client"] = "Google gemini-2.5-flash"

(***************************************************************************)
(* add_questions of newsquestions.py and of factcheckquestions.py.         *)
(***************************************************************************)
\* most rows of the dataframe passed to add_questions
MaxHeadlines == 2

\* the dataframes of n headlines, as fetch_articles makes them
HeadlineFrames(n) ==
    {[i \in 1..n |-> [source |-> "Google News", title |-> t[i],
                      url |-> "https://news.google.com/" \o ToString(i)]] :
        t \in [1..n -> GenHeadlines]}

\* the dataframe of n claims, with the columns load_claims gives them
ClaimFrame(n) ==
    [i \in 1..n |-> [source |-> "publisher", claim |-> "claim " \o ToString(i), lang |-> "en"]]

\* generate_questions(headline, use_ai_questions) when cb.ask_openai does as
\* reply says: the returned list, or the exception that leaves the function
generate_questions(hl, use_ai, reply) ==
    IF ~use_ai THEN Value(<<BasicQuestion(hl)>>)
    ELSE IF reply.kind = "raises" THEN Raises("Exception")
    ELSE LET r == TryBody(<<BasicQuestion(hl)>>, reply.response)
         IN IF r.exc = "none" THEN r
            ELSE IF GenCatches(r.exc) THEN Value(<<BasicQuestion(hl)>>)
            ELSE Raises(r.exc)

\* row_dict = row.to_dict(); row_dict["question"] = question
WithQuestion(row, question) ==
    [f \in DOMAIN row \cup {"question"} |-> IF f = "question" THEN question ELSE row[f]]

\* dfq = df, as it would be without the copy: the new column shows in df too
InputWithoutCopy(frame, dfq) == dfq

\* dfq = df.copy(): what is assigned to dfq leaves df as it was
InputAfterCopy(frame, dfq) == frame

AddInit ==
    /\ add_pc = "called"
    /\ add_i = 0
    /\ add_generated = <<>>
    /\ add_out = <<>>
    /\ \/ /\ add_fn = "news"
          /\ \E n \in 0..MaxHeadlines : add_df \in HeadlineFrames(n)
          /\ add_use_ai \in BOOLEAN
          /\ factcheck_prompt = ""
       \/ /\ add_fn = "factcheck"
          /\ \E n \in 0..MaxHeadlines : add_df = ClaimFrame(n + 1)
          /\ add_use_ai = FALSE
          /\ factcheck_prompt \in {"Is this statement true: ", "True or false? "}

\* newsquestions.add_questions, one turn of the loop over the rows: the
\* questions of the title are generated and a row is added for each
AddHeadlineQuestions ==
    /\ add_pc = "called"
    /\ add_fn = "news"
    /\ add_i < Len(add_df)
    /\ \E reply \in GenResponses :
          LET row == add_df[add_i + 1]
              questions == generate_questions(row.title, add_use_ai, reply)
          IN /\ questions.exc = "none"
             /\ add_generated' = Append(add_generated, questions.value)
             /\ add_out' = add_out \o
                   [q \in 1..Len(questions.value) |-> WithQuestion(row, questions.value[q])]
    /\ add_i' = add_i + 1
    /\ UNCHANGED <<add_fn, add_pc, add_df, add_use_ai, factcheck_prompt>>
    /\ UNCHANGED otherThanAdd

\* newsquestions.add_questions: generate_questions raises, and so does add_questions
AddHeadlineRaises ==
    /\ add_pc = "called"
    /\ add_fn = "news"
    /\ add_i < Len(add_df)
    /\ \E reply \in GenResponses :
          generate_questions(add_df[add_i + 1].title, add_use_ai, reply).exc # "none"
    /\ add_pc' = "raised"
    /\ UNCHANGED <<add_fn, add_df, add_use_ai, factcheck_prompt, add_i, add_generated, add_out>>
    /\ UNCHANGED otherThanAdd

\* newsquestions.add_questions: return pd.DataFrame(result_rows)
AddReturnRows ==
    /\ add_pc = "called"
    /\ add_fn = "news"
    /\ add_i = Len(add_df)
    /\ add_pc' = "returned"
    /\ UNCHANGED <<add_fn, add_df, add_use_ai, factcheck_prompt, add_i, add_generated, add_out>>
    /\ UNCHANGED otherThanAdd

\* factcheckquestions.add_questions
AddFactCheckQuestions ==
    /\ add_pc = "called"
    /\ add_fn = "factcheck"
    /\ LET dfq == [i \in 1..Len(add_df) |->
                     WithQuestion(add_df[i], factcheck_prompt \o add_df[i].claim)]
       IN /\ add_out' = dfq
          /\ add_df' = InputAfterCopy(add_df, dfq)
    /\ add_pc' = "returned"
    /\ UNCHANGED <<add_fn, add_use_ai, factcheck_prompt, add_i, add_generated>>
    /\ UNCHANGED otherThanAdd

AddNext ==
    \/ AddHeadlineQuestions
    \/ AddHeadlineRaises
    \/ AddReturnRows
    \/ AddFactCheckQuestions

(***************************************************************************)
(* Claims about the two add_questions, checked under SpecAdd.              *)
(***************************************************************************)
RECURSIVE RowsBefore(_, _)
\* the number of questions generated for the first i headlines
RowsBefore(lists, i) == IF i = 0 THEN 0 ELSE RowsBefore(lists, i - 1) + Len(lists[i])

\* the row without its question column
WithoutQuestion(row) == [f \in DOMAIN row \ {"question"} |-> row[f]]

\* C20: newsquestions.add_questions returns one row per (headline, question)
\* pair: every input headline contributes at least one row, the number of rows
\* is the sum over the headlines of the number of questions generated for it,
\* rows appear in headline order then question order, and every row carries all
\* columns of its headline row unchanged plus the question.
\* factcheckquestions.add_questions returns a copy with question =
\* factcheck_prompt + claim for each row and leaves the input dataframe without
\* a question column.
C20_AddQuestions ==
    /\ (add_fn = "news" /\ add_pc = "returned") =>
          /\ Len(add_generated) = Len(add_df)
          /\ Len(add_out) = RowsBefore(add_generated, Len(add_df))
          /\ \A i \in 1..Len(add_df) :
                /\ Len(add_generated[i]) >= 1
                /\ \A q \in 1..Len(add_generated[i]) :
                      LET row == add_out[RowsBefore(add_generated, i - 1) + q]
                      IN /\ WithoutQuestion(row) = add_df[i]
                         /\ row.question = add_generated[i][q]
    /\ (add_fn = "factcheck" /\ add_pc = "returned") =>
          /\ Len(add_out) = Len(add_df)
          /\ \A i \in 1..Len(add_df) :
                /\ add_out[i].question = factcheck_prompt \o add_df[i].claim
                /\ WithoutQuestion(add_out[i]) = add_df[i]
                /\ "question" \notin DOMAIN add_df[i]

\* C20 witness: two headlines, the first with three questions and the second
\* with the basic question alone, gave four rows in that order.
C20_Witness ==
    /\ add_fn = "news"
    /\ add_pc = "returned"
    /\ Len(add_df) = 2
    /\ Len(add_generated[1]) = 3
    /\ Len(add_generated[2]) = 1
    /\ Len(add_out) = 4
    /\ add_out[3].url = add_df[1].url
    /\ add_out[4].question = BasicQuestion(add_df[2].title)

\* C20 second witness: the factcheck add_questions returned the questions of
\* two claims.
C20_FactCheckQuestions ==
    /\ add_fn = "factcheck"
    /\ add_pc = "returned"
    /\ Len(add_out) = 2
    /\ add_out[2].question = "True or false? claim 2"

vars == <<firstVars, laterVars>>

\* the fan-out variables while another part runs
FanIdle ==
    /\ script = "news"
    /\ df = <<>>
    /\ chatbots = <<>>
    /\ max_workers = DefaultMaxWorkers
    /\ main_pc = "idle"
    /\ folder = FALSE
    /\ pc = <<>>
    /\ locks = <<>>
    /\ counter_lock = NoTask
    /\ counter = 0
    /\ count = <<>>
    /\ response = <<>>
    /\ files = {}
    /\ exc = <<>>
    /\ results = <<>>
    /\ ret = <<>>
    /\ faults = 0

\* the poller's variables while another part runs
SpnIdle ==
    /\ spn_pc = "idle"
    /\ spn_response = NoSubmit
    /\ max_tries = DefaultMaxTries
    /\ attempt = 0
    /\ requests = 0
    /\ sleeps = 0
    /\ data = NoData
    /\ successes = 0
    /\ not_success = 0
    /\ spn_ret = Unset

\* the splitter's variables while another part runs
TitleIdle ==
    /\ title_pc = "idle"
    /\ title = <<>>
    /\ news_title = <<>>
    /\ news_outlet = <<>>

\* the Sheets wrappers' variables while another part runs
GsIdle ==
    /\ gs_stack = <<>>
    /\ gs_public = FALSE
    /\ gs_tabs = {}
    /\ gs_written = {}
    /\ gs_val = Unset
    /\ gs_ret = Unset
    /\ gs_raised = "none"
    /\ gs_errors = 0
    /\ gs_logged = 0
    /\ gs_returns = {}
    /\ gs_log = <<>>

\* generate_questions' variables while another part runs
GenIdle ==
    /\ gen_pc = "idle"
    /\ headline = ""
    /\ use_ai_questions = FALSE
    /\ gen_response = [kind |-> "raises"]
    /\ llm_calls = 0
    /\ question_list = <<>>

\* save_page's variables while another part runs
SaveIdle ==
    /\ save_pc = "idle"
    /\ send_exc = "none"
    /\ archive_url = Unset

\* authenticate_gsheets' variables while another part runs
AuthIdle ==
    /\ auth_pc = "idle"
    /\ token_file = NoFile
    /\ secrets_file = FALSE
    /\ creds = NoCreds
    /\ loaded = NoCreds
    /\ auth_steps = <<>>
    /\ auth_faults = 0

\* the scrapers' variables while another part runs
ScrIdle ==
    /\ scr_fn = "ask_chatgpt"
    /\ scr_pc = "idle"
    /\ numtries = 0
    /\ tries_attempted = 0
    /\ scr_step = 0
    /\ scr_attempts = 0
    /\ scr_failures = 0
    /\ scr_ret = Unset

\* the loaders' variables while another part runs
LimIdle ==
    /\ lim_fn = "fetch_articles"
    /\ lim_pc = "idle"
    /\ lim_items = <<>>
    /\ lim_limit = NoLimit
    /\ separate_titles = FALSE
    /\ lim_out = <<>>

\* the variables of the sequential ask_questions while another part runs
SeqIdle ==
    /\ seq_pc = "idle"
    /\ seq_df = <<>>
    /\ seq_chatbots = <<>>
    /\ save_folder = "out"
    /\ dirs_before = {}
    /\ disk = {}
    /\ seq_counter = 0
    /\ seq_pair = 0
    /\ result_rows = <<>>
    /\ seq_exc = "none"

\* the variables of the two add_questions while another part runs
AddIdle ==
    /\ add_fn = "news"
    /\ add_pc = "idle"
    /\ add_df = <<>>
    /\ add_use_ai = FALSE
    /\ factcheck_prompt = ""
    /\ add_i = 0
    /\ add_generated = <<>>
    /\ add_out = <<>>

\* every part listed after the first four is idle
LaterIdle == GenIdle /\ SaveIdle /\ AuthIdle /\ ScrIdle /\ LimIdle /\ SeqIdle /\ AddIdle

Init == FanInit /\ SpnIdle /\ TitleIdle /\ GsIdle /\ LaterIdle

\* the threaded fan-out
Spec == Init /\ [][FanNext]_vars

\* the calling thread and every worker thread keep running, and every chatbot
\* request, file write and upload returns or raises in the end
FanFairness ==
    /\ WF_vars(ValidateOk \/ ValidateRaise \/ Return)
    /\ \A k \in 1..MaxTasks : WF_vars(TaskStep(k))

\* the threaded fan-out with threads that keep running and external calls that end
SpecFair == Init /\ [][FanNext]_vars /\ FanFairness

InitSpn == SpnInit /\ FanIdle /\ TitleIdle /\ GsIdle /\ LaterIdle

\* retrieve_spn_url
SpecSpn == InitSpn /\ [][SpnNext]_vars

InitTitles == TitleInit /\ FanIdle /\ SpnIdle /\ GsIdle /\ LaterIdle

\* split_titles
SpecTitles == InitTitles /\ [][TitleNext]_vars

InitSheets == GsInit /\ FanIdle /\ SpnIdle /\ TitleIdle /\ LaterIdle

\* the wrappers of googlesheets.py
SpecSheets == InitSheets /\ [][GsNext]_vars

\* the first four parts are idle
FirstIdle == FanIdle /\ SpnIdle /\ TitleIdle /\ GsIdle

InitGen == GenInit /\ FirstIdle /\ SaveIdle /\ AuthIdle /\ ScrIdle /\ LimIdle /\ SeqIdle /\ AddIdle

\* generate_questions of newsquestions.py
SpecGen == InitGen /\ [][GenNext]_vars

InitSave == SaveInit /\ FanIdle /\ SpnIdle /\ TitleIdle /\ GsIdle /\ GenIdle /\ AuthIdle /\ ScrIdle /\ LimIdle /\ SeqIdle /\ AddIdle

\* save_page of internetarchive.py
SpecSave == InitSave /\ [][SaveNext]_vars

InitAuth == AuthInit /\ FirstIdle /\ GenIdle /\ SaveIdle /\ ScrIdle /\ LimIdle /\ SeqIdle /\ AddIdle

\* authenticate_gsheets of googlesheets.py
SpecAuth == InitAuth /\ [][AuthNext]_vars

InitScr == ScrInit /\ FirstIdle /\ GenIdle /\ SaveIdle /\ AuthIdle /\ LimIdle /\ SeqIdle /\ AddIdle

\* ask_chatgpt and ask_perplexity of scraper.py
SpecScr == InitScr /\ [][ScrNext]_vars

InitLim == LimInit /\ FirstIdle /\ GenIdle /\ SaveIdle /\ AuthIdle /\ ScrIdle /\ SeqIdle /\ AddIdle

\* fetch_articles, load_questions and load_claims
SpecLim == InitLim /\ [][LimNext]_vars

InitSeq == SeqInit /\ FirstIdle /\ GenIdle /\ SaveIdle /\ AuthIdle /\ ScrIdle /\ LimIdle /\ AddIdle

\* the sequential ask_questions of questions.py
SpecSeq == InitSeq /\ [][SeqNext]_vars

InitAdd == AddInit /\ FirstIdle /\ GenIdle /\ SaveIdle /\ AuthIdle /\ ScrIdle /\ LimIdle /\ SeqIdle

\* add_questions of newsquestions.py and of factcheckquestions.py
SpecAdd == InitAdd /\ [][AddNext]_vars

====
